---- MODULE Spec2Model ----
(***************************************************************************)
(* State-machine model of the frontend-tutorial task tracker:              *)
(*   - Session entity (sessionStore.js, mock sessionApi, login form) and   *)
(*     the router's navigation guards,                                     *)
(*   - Task entity in remote-backed mode (todoStore.js + validated         *)
(*     todoApi + schema-bound creation form),                              *)
(*   - Task entity in local-only mode (useTodos / TodoApp state + the      *)
(*     creation forms that feed it).                                       *)
(* Strings whose content the code inspects (titles, e-mail addresses,      *)
(* passwords) are sequences of one-character strings.                      *)
(***************************************************************************)
EXTENDS Integers, Sequences, FiniteSets, TLC

VARIABLES
    \* ---- session entity and router
    lsToken,        \* durable-storage slot `token`
    session,        \* useSessionStore state
    calls,          \* pending session service calls, in the order they were started
    nav,            \* the router's navigation in progress
    page,           \* the page the router has committed
    loginForm,      \* react-hook-form state of the login form
    routerVariant,  \* which of the two router snapshots is mounted
    authHist,       \* history: the latest of {successful login, logout}
    ev,             \* history: what the last step did
    \* ---- task entity, remote-backed
    todos,          \* useTodoStore.todos
    isLoading,      \* useTodoStore.isLoading
    error,          \* useTodoStore.error
    reqs,           \* HTTP requests in flight
    todoForm,       \* the schema-bound creation form (draft, field error, root error)
    \* ---- task entity, local-only
    localTodos,     \* the collection held by useTodos / TodoApp
    lsTodos,        \* durable-storage slot `todos`
    localForm,      \* the creation form feeding the local collection
    formVariant,    \* which creation form snapshot is mounted in local-only mode
    now,            \* Date.now()
    \* ---- shared hooks
    listeners,      \* window's keydown listeners
    comps,          \* the components that subscribed with useKeyPress
    formValues,     \* useForm (generic form hook): values
    formErrors,     \* useForm: errors
    formInitial,    \* useForm: the initialValues it was called with
    \* ---- observation
    hist            \* history: the toggles of one task being followed

sessionVars == <<lsToken, session, calls, nav, page, loginForm, routerVariant, authHist>>
remoteVars  == <<todos, isLoading, error, reqs, todoForm>>
localVars   == <<localTodos, lsTodos, localForm, formVariant, now>>
keyVars     == <<listeners, comps>>
genericFormVars == <<formValues, formErrors, formInitial>>
hookVars    == <<keyVars, genericFormVars>>
vars == <<sessionVars, remoteVars, localVars, hookVars, ev, hist>>

(***************************************************************************)
(* Bounds of the model.                                                    *)
(***************************************************************************)
MaxPending == 2     \* session service calls a user action may leave in flight
MaxHops == 2        \* the redirect counter of a navigation saturates here
MaxReqs == 2        \* HTTP requests in flight at once
MaxTodos == 2       \* tasks in a collection
MaxTime == 2        \* the clock stops advancing here
MaxRenders == 2     \* handler identities a component goes through

(***************************************************************************)
(* Character strings.                                                      *)
(***************************************************************************)
Rep(c, n) == [i \in 1..n |-> c]

Count(s, c) == Cardinality({i \in 1..Len(s) : s[i] = c})

None == "none"

(***************************************************************************)
(* Session entity: schema and mock service (entities/session/model).       *)
(***************************************************************************)
MOCK_EMAIL == <<"u","s","e","r","@","e","x","a","m","p","l","e",".","c","o","m">>
MOCK_PASSWORD == <<"p","a","s","s","w","o","r","d","1","2","3">>
MOCK_USER == [email |-> MOCK_EMAIL, password |-> MOCK_PASSWORD]
MockToken == "mock-jwt-token"
InvalidCredentials == "Invalid email or password"

PasswordMin == 6
PasswordMax == 50
LoginDelay == 500
CheckDelay == 200

\* z.string().email(): one "@", a non-empty local part, a dotted domain
IsEmail(s) ==
    /\ Count(s, "@") = 1
    /\ \E i \in 2..Len(s) :
          /\ s[i] = "@"
          /\ \E j \in (i + 2)..(Len(s) - 1) : s[j] = "."

\* loginSchema.safeParse(data): the set of fields with an issue
loginSchemaIssues(data) ==
    (IF IsEmail(data.email) /\ Len(data.email) >= 1 THEN {} ELSE {"email"})
    \cup
    (IF Len(data.password) >= PasswordMin /\ Len(data.password) <= PasswordMax
        THEN {} ELSE {"password"})

sessionApiLoginEmailOnly(creds) == creds.email = MOCK_USER.email

\* sessionApi.login, after its delay: does it resolve?
sessionApiLoginOk(creds) ==
    creds.email = MOCK_USER.email /\ creds.password = MOCK_USER.password

sessionApiCheckAlways(stored) == TRUE

\* sessionApi.check, after its delay: does it resolve?
sessionApiCheckOk(stored) == stored # None

Delay(op) == IF op = "login" THEN LoginDelay ELSE CheckDelay

(***************************************************************************)
(* Session store (entities/session/store/sessionStore.js).                 *)
(***************************************************************************)
sessionInitialAnonymous(stored) ==
    [token |-> stored, isAuthenticated |-> FALSE,
     user |-> None, error |-> None, isLoading |-> FALSE]

sessionInitial(stored) ==
    [token |-> stored, isAuthenticated |-> stored # None,
     user |-> None, error |-> None, isLoading |-> FALSE]

\* The outcomes of the service call a store operation awaits inside its try.
ServiceOutcomes == {"fulfilled", "rejected"}

\* login, checkAuth: `try { await sessionApi...; return true } catch (error)
\* { set(...); return false }`.  How the operation's own promise settles.
sessionStoreSettles(outcome) ==
    IF outcome = "fulfilled"
    THEN "resolved"    \* the try block returns
    ELSE "resolved"    \* the catch block stores the failure and returns

loginStart(s) == [s EXCEPT !.isLoading = TRUE, !.error = None]

loginResolvedStillLoading(s, tok) ==
    [s EXCEPT !.token = tok, !.isAuthenticated = TRUE]

loginResolved(s, tok) ==
    [s EXCEPT !.token = tok, !.isAuthenticated = TRUE, !.isLoading = FALSE]

loginRejectedResets(s, msg) ==
    [s EXCEPT !.error = msg, !.isLoading = FALSE, !.isAuthenticated = FALSE]

loginRejected(s, msg) == [s EXCEPT !.error = msg, !.isLoading = FALSE]

logoutKeepsFlag(s) == [s EXCEPT !.token = None, !.user = None]

logoutState(s) ==
    [s EXCEPT !.token = None, !.isAuthenticated = FALSE, !.user = None]

checkAuthNoTokenInverted(s) == [s EXCEPT !.isAuthenticated = TRUE]

checkAuthNoToken(s) == [s EXCEPT !.isAuthenticated = FALSE]

checkAuthResolved(s) == [s EXCEPT !.isAuthenticated = TRUE]

checkAuthRejected(s) ==
    [s EXCEPT !.token = None, !.isAuthenticated = FALSE, !.user = None]

(***************************************************************************)
(* Router guards (app/router/index.jsx).  A guard yields "null" (commit    *)
(* the route) or the route it redirects to.                                *)
(***************************************************************************)
Routes == {"/", "/login"}

protectedLoaderAlways(isAuthenticated) == "/login"

protectedLoader(isAuthenticated) == IF ~isAuthenticated THEN "/login" ELSE "null"

guestLoaderNoRedirect(isAuthenticated) == "null"

guestLoader(isAuthenticated) == IF isAuthenticated THEN "/" ELSE "null"

\* the sessionApi snapshot of the router: the outcome of `await sessionApi.check()`
authLoader(checkResolved) == IF checkResolved THEN "null" ELSE "/login"

guestLoaderApi(checkResolved) == IF checkResolved THEN "/" ELSE "null"

loaderResult(route, variant, ok) ==
    IF variant = "store"
    THEN (IF route = "/" THEN protectedLoader(ok) ELSE guestLoader(ok))
    ELSE (IF route = "/" THEN authLoader(ok) ELSE guestLoaderApi(ok))

NavIdle == [target |-> None, phase |-> "idle", hops |-> 0]

\* the router applies a loader's result to the navigation for `route`
navAfter(route, hops, result) ==
    IF result = "null" THEN NavIdle
    ELSE [target |-> result, phase |-> "redirect",
          hops |-> IF hops < MaxHops THEN hops + 1 ELSE MaxHops]

pageAfter(route, result, pg) == IF result = "null" THEN route ELSE pg

Orphaned(cs) == [i \in 1..Len(cs) |-> [cs[i] EXCEPT !.nav = FALSE]]

RemoveAt(s, i) == [j \in 1..(Len(s) - 1) |-> IF j < i THEN s[j] ELSE s[j + 1]]

NoCreds == [email |-> <<>>, password |-> <<>>]

\* history record of a step: the store operation that returned in it (op, ret),
\* whether the service answered in it (svc), what the guard decided (loader,
\* route), where the login form navigated (navTo), durable storage and the
\* store before it
Ev(kind) ==
    [kind |-> kind, op |-> None, ret |-> None, svc |-> FALSE, loader |-> None,
     route |-> None, navTo |-> None, tokenBefore |-> lsToken,
     sessionBefore |-> session, creds |-> NoCreds,
     store |-> "session", promise |-> None]

(***************************************************************************)
(* The router starts the loader of `route`: a navigation begun by the      *)
(* user, by navigate('/') or by following a redirect.  `ls`, `s`, `cs` are *)
(* durable storage, the store and the pending calls at that moment.        *)
(* Result: the new store, calls, navigation, page and history fields.      *)
(***************************************************************************)
loaderBegin(route, hops, ls, s, cs, pg) ==
    IF routerVariant = "store" /\ ls = None
    THEN \* checkAuth finds no token: it returns false at once
         LET r == loaderResult(route, "store", FALSE) IN
         [session |-> checkAuthNoToken(s),
          calls |-> Orphaned(cs),
          nav |-> navAfter(route, hops, r),
          page |-> pageAfter(route, r, pg),
          op |-> "checkAuth", ret |-> "false",
          loader |-> (IF r = "null" THEN "commit" ELSE "redirect")]
    ELSE \* the check is awaited
         [session |-> s,
          calls |-> Append(Orphaned(cs),
                     [op |-> (IF routerVariant = "store" THEN "checkAuth" ELSE "check"),
                      creds |-> NoCreds, nav |-> TRUE, route |-> route, hops |-> hops]),
          nav |-> [target |-> route, phase |-> "loading", hops |-> hops],
          page |-> pg,
          op |-> None, ret |-> None, loader |-> None]

EvLoader(kind, route, b) ==
    [Ev(kind) EXCEPT !.op = b.op, !.ret = b.ret, !.loader = b.loader,
                     !.route = IF b.loader = None THEN None ELSE route]

(***************************************************************************)
(* Inputs of the login form.                                               *)
(***************************************************************************)
OtherEmail == <<"a","@","b",".","c">>
BadEmail == <<"u","s","e","r">>
WrongPassword == <<"p","a","s","s","w","o","r","d","1","2","4">>
ShortPassword == <<"p","w">>
LoginInputs ==
    [email : {MOCK_EMAIL, OtherEmail, BadEmail},
     password : {MOCK_PASSWORD, WrongPassword, ShortPassword}]

LoginFormInitial == [fieldErrors |-> {}, root |-> None]
loginFormRootMessage == "Invalid email or password"

(***************************************************************************)
(* Session actions.                                                        *)
(***************************************************************************)
\* the user (or a link) asks the router for `route`
Navigate(route) ==
    /\ Len(calls) < MaxPending
    /\ LET b == loaderBegin(route, 0, lsToken, session, calls, page) IN
         /\ session' = b.session
         /\ calls' = b.calls
         /\ nav' = b.nav
         /\ page' = b.page
         /\ ev' = EvLoader("navigate", route, b)
    /\ UNCHANGED <<lsToken, loginForm, routerVariant, authHist, remoteVars, localVars, hookVars, hist>>

\* the router follows the redirect a guard returned
FollowRedirect ==
    /\ nav.phase = "redirect"
    /\ LET b == loaderBegin(nav.target, nav.hops, lsToken, session, calls, page) IN
         /\ session' = b.session
         /\ calls' = b.calls
         /\ nav' = b.nav
         /\ page' = b.page
         /\ ev' = EvLoader("redirect", nav.target, b)
    /\ UNCHANGED <<lsToken, loginForm, routerVariant, authHist, remoteVars, localVars, hookVars, hist>>

\* nothing is being followed (mode "off": nothing is ever followed)
HistIdle(mode) ==
    [mode |-> mode, phase |-> "idle", id |-> 0, before |-> <<>>,
     issued |-> 0, applied |-> 0, overlap |-> FALSE]

LoginCalls == {i \in 1..Len(calls) : calls[i].op = "login"}

\* The observer of logouts (mode "logout"; any other mode leaves it alone).  From
\* a logout on it is "running" until a login started after that logout
\* succeeds.  `issued` counts the logins that were in flight at the logout and
\* are still outstanding: logins are answered oldest first, so they are the
\* next to settle.  `overlap` tells that one of them has succeeded.
SessionObserved ==
    LET e == ev' IN
      IF hist.mode # "logout" THEN hist
      ELSE IF e.kind = "logout"
      THEN [hist EXCEPT !.phase = "running", !.issued = Cardinality(LoginCalls)]
      ELSE IF e.kind = "construct" THEN [hist EXCEPT !.issued = 0]
      ELSE IF e.kind = "loginSettled" /\ hist.phase = "running" THEN
        IF hist.issued > 0
        THEN [hist EXCEPT !.issued = hist.issued - 1,
                          !.overlap = hist.overlap \/ e.ret = "true"]
        ELSE IF e.ret = "true" THEN HistIdle(hist.mode)
        ELSE hist
      ELSE hist

\* useLoginForm: handleSubmit(onSubmit) with the typed credentials; the form is
\* on the login page
SubmitLogin(data) ==
    /\ page = "/login"
    /\ LET issues == loginSchemaIssues(data) IN
         IF issues # {}
         THEN /\ loginForm' = [fieldErrors |-> issues, root |-> None]
              /\ ev' = [Ev("loginInvalid") EXCEPT !.creds = data]
              /\ UNCHANGED <<session, calls>>
         ELSE /\ Len(calls) < MaxPending
              /\ loginForm' = LoginFormInitial
              /\ session' = loginStart(session)
              /\ calls' = Append(calls, [op |-> "login", creds |-> data, nav |-> FALSE,
                                         route |-> None, hops |-> 0])
              /\ ev' = [Ev("loginSubmit") EXCEPT !.creds = data]
    /\ UNCHANGED <<lsToken, nav, page, routerVariant, authHist, remoteVars, localVars, hookVars, hist>>

\* a timer fires only after every timer that was due before it
TimerDue(i) ==
    /\ i \in 1..Len(calls)
    /\ \A j \in 1..(i - 1) : Delay(calls[j].op) > Delay(calls[i].op)

\* sessionApi.login answers; store.login and the form's onSubmit continue
SettleLogin(i) ==
    /\ TimerDue(i)
    /\ calls[i].op = "login"
    /\ LET c == calls[i]
           rest == RemoveAt(calls, i) IN
         IF sessionApiLoginOk(c.creds)
         THEN LET s1 == loginResolved(session, MockToken)
                  b == loaderBegin("/", 0, MockToken, s1, rest, page) IN
                /\ lsToken' = MockToken
                /\ session' = b.session
                /\ calls' = b.calls
                /\ nav' = b.nav
                /\ page' = b.page
                /\ authHist' = "loginOK"
                /\ ev' = [Ev("loginSettled") EXCEPT !.op = "login", !.ret = "true",
                             !.svc = TRUE, !.navTo = "/", !.creds = c.creds,
                             !.promise = sessionStoreSettles("fulfilled")]
                /\ UNCHANGED loginForm
         ELSE /\ session' = loginRejected(session, InvalidCredentials)
              /\ calls' = rest
              /\ loginForm' = [loginForm EXCEPT !.root = loginFormRootMessage]
              /\ ev' = [Ev("loginSettled") EXCEPT !.op = "login", !.ret = "false",
                           !.svc = TRUE, !.creds = c.creds,
                           !.promise = sessionStoreSettles("rejected")]
              /\ UNCHANGED <<lsToken, nav, page, authHist>>
    /\ UNCHANGED <<routerVariant, remoteVars, localVars, hookVars>>
    /\ hist' = SessionObserved

\* sessionApi.check answers; checkAuth (store router) and the guard continue
SettleCheck(i) ==
    /\ TimerDue(i)
    /\ calls[i].op \in {"checkAuth", "check"}
    /\ LET c == calls[i]
           ok == sessionApiCheckOk(lsToken)
           variant == IF c.op = "checkAuth" THEN "store" ELSE "api"
           r == loaderResult(c.route, variant, ok) IN
         /\ calls' = RemoveAt(calls, i)
         /\ IF c.op = "checkAuth"
            THEN IF ok
                 THEN session' = checkAuthResolved(session) /\ UNCHANGED lsToken
                 ELSE session' = checkAuthRejected(session) /\ lsToken' = None
            ELSE UNCHANGED <<session, lsToken>>
         /\ IF c.nav
            THEN /\ nav' = navAfter(c.route, c.hops, r)
                 /\ page' = pageAfter(c.route, r, page)
            ELSE UNCHANGED <<nav, page>>
         /\ ev' = [Ev("checkSettled") EXCEPT
                      !.op = c.op, !.ret = IF ok THEN "true" ELSE "false", !.svc = TRUE,
                      !.promise = IF c.op # "checkAuth" THEN None
                                  ELSE sessionStoreSettles(IF ok THEN "fulfilled"
                                                           ELSE "rejected"),
                      !.loader = IF ~c.nav THEN None
                                 ELSE IF r = "null" THEN "commit" ELSE "redirect",
                      !.route = IF c.nav THEN c.route ELSE None]
    /\ UNCHANGED <<loginForm, routerVariant, authHist, remoteVars, localVars, hookVars, hist>>

\* store.logout()
Logout ==
    /\ lsToken' = None
    /\ session' = logoutState(session)
    /\ authHist' = "logout"
    /\ ev' = [Ev("logout") EXCEPT !.op = "logout"]
    /\ UNCHANGED <<calls, nav, page, loginForm, routerVariant, remoteVars, localVars, hookVars>>
    /\ hist' = SessionObserved

\* the page is loaded again: the module is evaluated and the store constructed
ConstructStore ==
    /\ session' = sessionInitial(lsToken)
    /\ calls' = <<>>
    /\ nav' = NavIdle
    /\ page' = None
    /\ loginForm' = LoginFormInitial
    /\ ev' = Ev("construct")
    /\ UNCHANGED <<lsToken, routerVariant, authHist, remoteVars, localVars, hookVars>>
    /\ hist' = SessionObserved

SessionInit ==
    /\ lsToken \in {None, MockToken}
    /\ session = sessionInitial(lsToken)
    /\ calls = <<>>
    /\ nav = NavIdle
    /\ page = None
    /\ loginForm = LoginFormInitial
    /\ routerVariant \in {"store", "api"}
    /\ authHist = None

\* the components that call useKeyPress, and the key each subscribes to
Owners == {"form", "app"}

targetKey(owner) == IF owner = "form" THEN "Escape" ELSE "c"

\* the fields of the form that uses the generic form hook
Fields == {"title", "note"}

BlankValues == [f \in Fields |-> ""]

GenericFormQuiet ==
    /\ formInitial = BlankValues
    /\ formValues = BlankValues
    /\ formErrors = [f \in Fields |-> "none"]

HookQuiet ==
    /\ listeners = {}
    /\ comps = [o \in Owners |-> [mounted |-> FALSE, gen |-> 0]]
    /\ GenericFormQuiet

EmptyForm == [draft |-> <<>>, titleError |-> None, rootError |-> None]

RemoteInit ==
    /\ todos = <<>>
    /\ isLoading = FALSE
    /\ error = None
    /\ reqs = <<>>
    /\ todoForm = EmptyForm

NoSlot == [present |-> FALSE, value |-> <<>>]

LocalQuiet ==
    /\ localTodos = <<>>
    /\ lsTodos = NoSlot
    /\ localForm = EmptyForm
    /\ formVariant = "zod"
    /\ now = 0

SessionQuiet ==
    /\ lsToken = None
    /\ session = sessionInitial(None)
    /\ calls = <<>>
    /\ nav = NavIdle
    /\ page = None
    /\ loginForm = LoginFormInitial
    /\ routerVariant = "store"
    /\ authHist = None

SessionNext ==
    \/ \E route \in Routes : Navigate(route)
    \/ FollowRedirect
    \/ \E data \in LoginInputs : SubmitLogin(data)
    \/ \E i \in 1..Len(calls) : SettleLogin(i)
    \/ \E i \in 1..Len(calls) : SettleCheck(i)
    \/ Logout
    \/ ConstructStore

InitSession ==
    /\ SessionInit /\ RemoteInit /\ LocalQuiet /\ HookQuiet
    /\ ev = Ev("init")
    /\ hist = HistIdle("off")

SessionSpec == InitSession /\ [][SessionNext]_vars

(***************************************************************************)
(* Properties of the session entity and the router (SessionSpec).          *)
(***************************************************************************)
OtherRoute(route) == IF route = "/" THEN "/login" ELSE "/"

\* C1: a guard commits `/` exactly when the check returned true (a token was in
\* durable storage and the service accepted it) and commits `/login` exactly
\* when it returned false; in the other case it redirects to the other route.
\* So one outcome of the check commits exactly one of the two routes.
C1_RouteGuards ==
    ev.loader # None =>
        /\ ev.op \in {"checkAuth", "check"}
        /\ (ev.loader = "commit") = ((ev.route = "/") = (ev.ret = "true"))
        /\ (ev.ret = "true") = (ev.tokenBefore # None /\ ev.svc)
        /\ ev.loader = "commit" => page = ev.route /\ nav = NavIdle
        /\ ev.loader = "redirect" =>
              /\ nav.phase = "redirect"
              /\ nav.target = OtherRoute(ev.route)

C1_Witness ==
    /\ ev.loader = "commit" /\ ev.route = "/" /\ page = "/"
    /\ routerVariant = "store"

\* C2: store.login returns true, persists the token and sets token and
\* isAuthenticated exactly for user@example.com / password123; any other pair
\* returns false, sets error to 'Invalid email or password' and leaves durable
\* storage and token/isAuthenticated alone.  The form navigates to `/` only on
\* success and sets the root error, without navigating, on failure.
C2_LoginContract ==
    ev.kind = "loginSettled" =>
        IF ev.creds.email = MOCK_EMAIL /\ ev.creds.password = MOCK_PASSWORD
        THEN /\ ev.ret = "true"
             /\ lsToken = MockToken
             /\ session.token = MockToken
             /\ session.isAuthenticated
             /\ ev.navTo = "/"
             /\ nav.phase = "loading" /\ nav.target = "/"
        ELSE /\ ev.ret = "false"
             /\ session.error = "Invalid email or password"
             /\ lsToken = ev.tokenBefore
             /\ session.token = ev.sessionBefore.token
             /\ session.isAuthenticated = ev.sessionBefore.isAuthenticated
             /\ ev.navTo = None
             /\ loginForm.root = "Invalid email or password"

C2_Witness ==
    /\ ev.kind = "loginSettled" /\ ev.ret = "false"
    /\ ev.creds = [email |-> MOCK_EMAIL, password |-> WrongPassword]
    /\ lsToken = None

\* C3: whenever the store says isAuthenticated, a token is in durable storage.
C3_AuthenticatedHasToken == session.isAuthenticated => lsToken # None

C3_Witness ==
    /\ session.isAuthenticated /\ authHist = "loginOK"
    /\ ev.kind = "checkSettled" /\ Len(calls) > 0

\* C4 as stated: once a failed login has settled the session is Anonymous.
C4_FailedLoginAnonymous ==
    (ev.kind = "loginSettled" /\ ev.ret = "false") => ~session.isAuthenticated

\* C4 as amended: a failed login leaves isAuthenticated, the token and durable
\* storage as they were when it settled; an Anonymous session stays Anonymous.
C4_FailedLoginKeepsSession ==
    (ev.kind = "loginSettled" /\ ev.ret = "false") =>
        /\ session.isAuthenticated = ev.sessionBefore.isAuthenticated
        /\ session.token = ev.sessionBefore.token
        /\ lsToken = ev.tokenBefore
        /\ session.error = InvalidCredentials
        /\ ~session.isLoading

C4_Witness ==
    /\ ev.kind = "loginSettled" /\ ev.ret = "false"
    /\ ev.sessionBefore.isAuthenticated /\ session.isAuthenticated

\* C5: from logout() until a login succeeds, no token is persisted, the store
\* holds token null / isAuthenticated false / user null, every checkAuth (and
\* service check) returns false and every navigation to `/` is redirected to
\* `/login`.
C5_AfterLogout ==
    authHist = "logout" =>
        /\ lsToken = None
        /\ session.token = None /\ ~session.isAuthenticated /\ session.user = None
        /\ ev.op \in {"checkAuth", "check"} => ev.ret = "false"
        /\ (ev.loader # None /\ ev.route = "/") =>
              /\ ev.loader = "redirect"
              /\ nav.phase = "redirect" /\ nav.target = "/login"

C5_Witness ==
    /\ authHist = "logout"
    /\ ev.kind = "checkSettled" /\ ev.route = "/" /\ ev.loader = "redirect"

\* C6: checkAuth with no token stored sets isAuthenticated false and returns
\* false without calling the service; with a token stored it awaits the service
\* check and, when that resolves, sets isAuthenticated true and returns true,
\* and when it rejects, removes the persisted token, sets token null,
\* isAuthenticated false, user null and returns false.
C6_CheckAuthContract ==
    /\ ev.op = "checkAuth" =>
          /\ ~ev.svc =>
                /\ ev.tokenBefore = None
                /\ ev.ret = "false"
                /\ session = [ev.sessionBefore EXCEPT !.isAuthenticated = FALSE]
                /\ lsToken = None
          /\ (ev.svc /\ ev.ret = "true") =>
                /\ ev.tokenBefore # None
                /\ session = [ev.sessionBefore EXCEPT !.isAuthenticated = TRUE]
                /\ lsToken = ev.tokenBefore
          /\ (ev.svc /\ ev.ret = "false") =>
                /\ ev.tokenBefore = None
                /\ lsToken = None
                /\ session = [ev.sessionBefore EXCEPT !.token = None,
                                 !.isAuthenticated = FALSE, !.user = None]
    \* the call either returns at once (no token) or leaves the check pending
    /\ (ev.kind \in {"navigate", "redirect"} /\ routerVariant = "store") =>
          IF ev.tokenBefore = None
          THEN ev.op = "checkAuth" /\ ~ev.svc
          ELSE /\ ev.op = None
               /\ Len(calls) > 0
               /\ calls[Len(calls)].op = "checkAuth"

C6_Witness ==
    /\ ev.op = "checkAuth" /\ ev.svc /\ ev.ret = "false"

\* C7: a store constructed at any moment starts with token = the value of the
\* durable slot and isAuthenticated = its presence, with no service call; after
\* a successful login it starts Authenticated, after a logout Anonymous.
C7_ConstructedFromStorage ==
    ev.kind \in {"init", "construct"} =>
        /\ session.token = lsToken
        /\ session.isAuthenticated = (lsToken # None)
        /\ session.user = None /\ session.error = None /\ ~session.isLoading
        /\ ~ev.svc /\ calls = <<>>
        /\ authHist = "loginOK" => session.isAuthenticated
        /\ authHist = "logout" => ~session.isAuthenticated

C7_Witness ==
    /\ ev.kind = "construct" /\ authHist = "loginOK"
    /\ session.isAuthenticated /\ ev.tokenBefore = MockToken
    /\ ~ev.sessionBefore.isLoading

(***************************************************************************)
(* Task entity: schemas (entities/todo/model/schema.js, validation.js).    *)
(***************************************************************************)
TitleMin == 3
TitleMax == 50
ApiTitleMin == 3
ApiTitleMax == 50
TooShortMessage == "Title must be at least 3 characters"
TooLongMessage == "Title must be less than 50 characters"
ValidationFailedMessage == "API response validation failed"
DefaultErrorMessage == "An unexpected error occurred"

\* todoSchema.safeParse({title}): the message of the title's issue, if any
todoSchemaIssueExclusiveMax(title) ==
    IF Len(title) < TitleMin THEN TooShortMessage
    ELSE IF Len(title) >= TitleMax THEN TooLongMessage
    ELSE None

todoSchemaIssue(title) ==
    IF Len(title) < TitleMin THEN TooShortMessage
    ELSE IF Len(title) > TitleMax THEN TooLongMessage
    ELSE None

\* z.object({title}) keeps the declared keys only
todoSchemaParse(data) == [title |-> data.title]

createTodoSchemaOk(todo) ==
    Len(todo.title) >= ApiTitleMin /\ Len(todo.title) <= ApiTitleMax

\* createTodoSchema.parse(todo): completed defaults to false
createTodoSchemaParse(todo) ==
    [title |-> todo.title,
     completed |-> IF "completed" \in DOMAIN todo THEN todo.completed ELSE FALSE]

\* updateTodoSchema = createTodoSchema.partial(): unknown keys (id) are dropped
updateTodoSchemaParse(todo) == [title |-> todo.title, completed |-> todo.completed]

todoItemSchemaOk(item) ==
    /\ DOMAIN item = {"id", "title", "completed"}
    /\ item.id \in Nat
    /\ Len(item.title) >= ApiTitleMin /\ Len(item.title) <= ApiTitleMax
    /\ item.completed \in BOOLEAN

todoListSchemaOk(list) == \A i \in 1..Len(list) : todoItemSchemaOk(list[i])

\* JSON values as far as apiErrorSchema looks at them: the type of the value,
\* its text when it is a string, its number when it is a number
Absent == [t |-> "undefined", s |-> "", n |-> 0]
JNull == [t |-> "null", s |-> "", n |-> 0]
JStr(text) == [t |-> "string", s |-> text, n |-> 0]
JNum(num) == [t |-> "number", s |-> "", n |-> num]
JMap == [t |-> "object", s |-> "", n |-> 0]
JArray == [t |-> "array", s |-> "", n |-> 0]

\* a response body that is an object: its message, code and details members and
\* whether it has further members; and a body that is not an object
JBody(message, code, details, extra) ==
    [t |-> "object", message |-> message, code |-> code, details |-> details,
     extra |-> extra]

JOther(type) ==
    [t |-> type, message |-> Absent, code |-> Absent, details |-> Absent, extra |-> FALSE]

\* apiErrorSchema.parse(data): throws a ZodError, or returns the declared members
apiErrorSchemaParse(data) ==
    IF /\ data.t = "object"
       /\ data.message.t = "string"
       /\ data.code.t \in {"undefined", "number"}
       /\ data.details.t \in {"undefined", "object"}
    THEN [throws |-> FALSE,
          value |-> [message |-> data.message.s, code |-> data.code,
                     details |-> data.details]]
    ELSE [throws |-> TRUE,
          value |-> [message |-> "", code |-> Absent, details |-> Absent]]

DefaultApiError ==
    [message |-> DefaultErrorMessage, code |-> JNum(500), details |-> Absent]

\* validateApiError without its try/catch
validateApiErrorUncaught(data) ==
    LET parsed == apiErrorSchemaParse(data) IN
      [raised |-> parsed.throws, value |-> parsed.value]

\* validateApiError(error.response?.data)
validateApiErrorOutcome(data) ==
    LET parsed == apiErrorSchemaParse(data) IN
      IF parsed.throws THEN [raised |-> FALSE, value |-> DefaultApiError]
      ELSE [raised |-> FALSE, value |-> parsed.value]

validateApiError(data) == validateApiErrorOutcome(data).value

\* the message the interceptor rejects with
interceptorMessageRaw(data) == data.message.s

interceptorMessage(data) == validateApiError(data).message

(***************************************************************************)
(* Environment: the REST server behind the HTTP client.  POST and PUT      *)
(* answer with the request body plus the item's id; GET answers with one   *)
(* of a few collections; any request may fail.                             *)
(***************************************************************************)
ServerIds == {1, 2}

ServerItemA == [id |-> 1, title |-> Rep("a", 3), completed |-> FALSE]
ServerItemB == [id |-> 2, title |-> Rep("a", 3), completed |-> TRUE]
ServerItemLong == [id |-> 2, title |-> Rep("a", 51), completed |-> FALSE]
ServerLists ==
    {<<>>, <<ServerItemA>>, <<ServerItemA, ServerItemB>>, <<ServerItemA, ServerItemLong>>}

serverCreated(body, id) == [id |-> id, title |-> body.title, completed |-> body.completed]

serverUpdated(id, body) == [id |-> id, title |-> body.title, completed |-> body.completed]

\* what a failed call carries as error.response?.data: a well-formed error
\* body, a malformed one, or nothing (no response at all)
WellFormedBody == JBody(JStr("Not Found"), JNum(404), Absent, FALSE)
MalformedBody == JBody(Absent, Absent, Absent, TRUE)
NoResponse == JOther("undefined")
ErrorBodies == {WellFormedBody, MalformedBody, NoResponse}

(***************************************************************************)
(* Task store (entities/todo/store/todoStore.js).                          *)
(***************************************************************************)
\* fetchTodos, addTodo, toggleTodo, deleteTodo: `try { await todoApi...; set(...) }
\* catch (error) { set({ error: error.message, ... }) }`.  How the operation's
\* own promise settles.
todoStoreRethrows(outcome) ==
    IF outcome = "fulfilled"
    THEN "resolved"
    ELSE "rejected"

todoStoreSettles(outcome) ==
    IF outcome = "fulfilled"
    THEN "resolved"    \* the try block runs to its end
    ELSE "resolved"    \* the catch block stores error.message and returns

FailedToCreate == "Failed to create todo"

\* useTodoForm, store variant: onSubmit after `await addTodo(data)`.  `promise` is
\* how addTodo's promise settled, `success` the value it resolved with and
\* `message` the message of the error it rejected with ("" if it has none)
onSubmitSettled(form, promise, success, message) ==
    IF promise = "rejected"
    THEN [form EXCEPT !.rootError = IF message = "" THEN FailedToCreate ELSE message]
    ELSE IF success THEN EmptyForm    \* reset()
    ELSE form

addTodoPrepends(ts, newTodo) == <<newTodo>> \o ts

addTodoResolved(ts, newTodo) == Append(ts, newTodo)

FindOrFirst(ts, id) ==
    LET found == {i \in 1..Len(ts) : ts[i].id = id /\ \A j \in 1..(i - 1) : ts[j].id # id} IN
      IF found = {} THEN {i \in 1..Len(ts) : i = 1} ELSE found

Find(ts, id) == {i \in 1..Len(ts) : ts[i].id = id /\ \A j \in 1..(i - 1) : ts[j].id # id}

toggleRequestBody(todo) ==
    updateTodoSchemaParse([id |-> todo.id, title |-> todo.title,
                           completed |-> ~todo.completed])

toggleResolvedAll(ts, id, updatedTodo) ==
    [i \in 1..Len(ts) |-> updatedTodo]

toggleResolved(ts, id, updatedTodo) ==
    [i \in 1..Len(ts) |-> IF ts[i].id = id THEN updatedTodo ELSE ts[i]]

KeepLater(t, id) == t.id > id

Keep(t, id) == t.id # id

deleteResolved(ts, id) ==
    LET F[i \in 0..Len(ts)] ==
          IF i = 0 THEN <<>>
          ELSE IF Keep(ts[i], id) THEN Append(F[i - 1], ts[i]) ELSE F[i - 1]
    IN F[Len(ts)]

\* TodoList: the rows it renders, in order (none for an empty collection)
TodoListRows(ts) == [i \in 1..Len(ts) |-> ts[i].id]

\* TodoList: the empty-state message, or one row per task
TodoList(ts) ==
    IF Len(ts) = 0 THEN [shows |-> "empty", message |-> None, rows |-> <<>>]
    ELSE [shows |-> "list", message |-> None, rows |-> TodoListRows(ts)]

\* `if (x)` on a value that is null or a string
Truthy(x) == x # None /\ x # ""

TodoListContainerErrorFirst(ts, loading, err) ==
    IF Truthy(err) THEN [shows |-> "error", message |-> err, rows |-> <<>>]
    ELSE IF loading THEN [shows |-> "loading", message |-> None, rows |-> <<>>]
    ELSE TodoList(ts)

TodoListContainer(ts, loading, err) ==
    IF loading THEN [shows |-> "loading", message |-> None, rows |-> <<>>]
    ELSE IF Truthy(err) THEN [shows |-> "error", message |-> err, rows |-> <<>>]
    ELSE TodoList(ts)

PendingCreates == Cardinality({i \in 1..Len(reqs) : reqs[i].kind = "create"})

Req(kind, id, body) == [kind |-> kind, id |-> id, body |-> body]

NoBody == [title |-> <<>>, completed |-> FALSE]

\* history record of a step of the task entity
REv(kind) ==
    [kind |-> kind, ret |-> None, id |-> 0, http |-> None, data |-> NoResponse,
     store |-> "todo", promise |-> None]

\* the collection holds a task of this id
Holds(ts, id) == \E i \in 1..Len(ts) : ts[i].id = id

\* The observer of created tasks.  It follows one task at a time, from the step
\* in which a successful create appended it (its id was not in the collection
\* before) until a delete of its id succeeds.  `issued` counts the fetch-all
\* requests still outstanding that were issued before that create was; they are
\* the oldest fetch-all requests.  The phase is "lost" when the task is gone
\* from the collection without such a delete, through one of those fetch-all
\* requests or some other step; the observation ends quietly when a fetch-all
\* issued later answers without the task (the server no longer has it).
ObservedCreated ==
    LET e == ev'
        settled == IF Len(reqs') < Len(reqs)
                   THEN CHOOSE i \in 1..Len(reqs) :
                          /\ reqs' = RemoveAt(reqs, i)
                          /\ \A j \in 1..(i - 1) : reqs' # RemoveAt(reqs, j)
                   ELSE 0
        fetchesBefore == Cardinality({j \in 1..(settled - 1) : reqs[j].kind = "fetch"})
        idle == HistIdle(hist.mode)
    IN
      IF hist.phase = "running" THEN
        IF e.kind = "deleteSettled" /\ e.http = "ok" /\ e.id = hist.id THEN idle
        ELSE IF e.kind = "fetchSettled" THEN
          IF fetchesBefore < hist.issued
          THEN [hist EXCEPT !.issued = hist.issued - 1,
                            !.phase = IF Holds(todos', hist.id) THEN "running" ELSE "lost"]
          ELSE IF Holds(todos', hist.id) THEN hist ELSE idle
        ELSE IF Holds(todos', hist.id) THEN hist
        ELSE [hist EXCEPT !.phase = "lost"]
      ELSE IF e.kind = "createSettled" /\ e.ret = "true" /\ ~Holds(todos, e.id)
      THEN [idle EXCEPT !.phase = "running", !.id = e.id, !.issued = fetchesBefore]
      ELSE idle

\* The observer of errors (mode "error").  It is "running" from the step in which
\* a toggle or a delete fails (its catch sets `error`) until clearError is
\* called or a fetch-all or a create starts, whichever comes first; a create
\* that fails before its request is sent has started too.
ObservedError ==
    LET e == ev'
        idle == HistIdle(hist.mode)
    IN
      IF e.kind \in {"toggleSettled", "deleteSettled"} /\ e.ret = "false"
      THEN [idle EXCEPT !.phase = "running", !.id = e.id]
      ELSE IF e.kind \in {"clearError", "fetchStart", "createStart"}
              \/ (e.kind = "createSettled" /\ e.http = None)
      THEN idle
      ELSE hist

\* The observer of toggles.  It follows one task at a time: from a toggle issued
\* while none is pending for that task (`before` is the collection at that
\* moment), through a second toggle of the same task, until both have been
\* applied.  `overlap` tells that the second was issued before the first was
\* applied.  Anything else that changes the collection, a failed toggle and a
\* third toggle end the observation.
Observed ==
    LET e == ev'
        cur == IF hist.mode = "local" THEN localTodos ELSE todos
        nxt == IF hist.mode = "local" THEN localTodos' ELSE todos'
        issuedNow == e.kind \in {"toggleStart", "toggled"}
        appliedNow == e.kind = "toggled" \/ (e.kind = "toggleSettled" /\ e.ret = "ok")
        base == IF hist.phase = "done" THEN HistIdle(hist.mode) ELSE hist
        pendingSame == \E i \in 1..Len(reqs) : reqs[i].kind = "toggle" /\ reqs[i].id = e.id
        step(n) == IF appliedNow THEN n + 1 ELSE n
    IN
      IF hist.mode = "off" THEN hist
      ELSE IF hist.mode = "created" THEN ObservedCreated
      ELSE IF hist.mode = "error" THEN ObservedError
      ELSE IF issuedNow THEN
             IF base.phase = "idle" THEN
               IF pendingSame THEN base
               ELSE [base EXCEPT !.phase = "running", !.id = e.id, !.before = cur,
                                 !.issued = 1, !.applied = step(0)]
             ELSE IF base.id = e.id /\ base.issued = 1 THEN
               [base EXCEPT !.issued = 2, !.overlap = (base.applied = 0),
                            !.applied = step(base.applied),
                            !.phase = IF step(base.applied) = 2 THEN "done" ELSE "running"]
             ELSE IF base.id = e.id \/ nxt # cur THEN HistIdle(hist.mode)
             ELSE base
      ELSE IF appliedNow THEN
             IF base.phase = "running" /\ base.id = e.id THEN
               [base EXCEPT !.applied = base.applied + 1,
                            !.phase = IF base.applied + 1 = 2 THEN "done" ELSE "running"]
             ELSE HistIdle(hist.mode)
      ELSE IF nxt # cur \/ (e.kind = "toggleSettled" /\ e.id = base.id)
             THEN HistIdle(hist.mode)
      ELSE base

(***************************************************************************)
(* Task entity actions, remote-backed.                                     *)
(***************************************************************************)
\* titles the user types: around both bounds of the schema
TitleLengths == {0, 2, 3, 50, 51}
TitleInputs == {Rep("a", n) : n \in TitleLengths} \cup {Rep(" ", 3)}
\* the two titles (one rejected, one accepted) used where only the store matters
StoreTitles == {Rep("a", 2), Rep("a", 3)}

\* HomePage's effect (or any caller): fetchTodos()
FetchTodos ==
    /\ Len(reqs) < MaxReqs
    /\ isLoading' = TRUE
    /\ error' = None
    /\ reqs' = Append(reqs, Req("fetch", 0, NoBody))
    /\ ev' = REv("fetchStart")
    /\ UNCHANGED <<todos, todoForm, sessionVars, localVars, hookVars>>
    /\ hist' = Observed

SettleFetchOk(i, list) ==
    /\ i \in 1..Len(reqs) /\ reqs[i].kind = "fetch"
    /\ Len(list) + PendingCreates <= MaxTodos
    /\ reqs' = RemoveAt(reqs, i)
    /\ isLoading' = FALSE
    /\ IF todoListSchemaOk(list)
       THEN /\ todos' = list
            /\ ev' = [REv("fetchSettled") EXCEPT !.ret = "ok", !.http = "ok",
                         !.promise = todoStoreSettles("fulfilled")]
            /\ UNCHANGED error
       ELSE /\ error' = ValidationFailedMessage
            /\ ev' = [REv("fetchSettled") EXCEPT !.ret = "invalid", !.http = "ok",
                         !.promise = todoStoreSettles("rejected")]
            /\ UNCHANGED todos
    /\ UNCHANGED <<todoForm, sessionVars, localVars, hookVars>>
    /\ hist' = Observed

\* a request of any kind fails: the interceptor rejects, the operation's catch runs
SettleFailed(i, errBody) ==
    /\ i \in 1..Len(reqs)
    /\ reqs' = RemoveAt(reqs, i)
    /\ error' = interceptorMessage(errBody)
    /\ isLoading' = IF reqs[i].kind \in {"fetch", "create"} THEN FALSE ELSE isLoading
    /\ ev' = [REv(reqs[i].kind \o "Settled") EXCEPT
                 !.ret = "false", !.id = reqs[i].id, !.http = "error", !.data = errBody,
                 !.promise = todoStoreSettles("rejected")]
    /\ todoForm' = IF reqs[i].kind = "create"
                   THEN onSubmitSettled(todoForm, todoStoreSettles("rejected"), FALSE,
                                        interceptorMessage(errBody))
                   ELSE todoForm
    /\ UNCHANGED <<todos, sessionVars, localVars, hookVars>>
    /\ hist' = Observed

\* the creation form (useTodoForm, store variant): the user types `title` and submits
SubmitTodoForm(title) ==
    /\ LET issue == todoSchemaIssue(title) IN
         IF issue # None
         THEN \* the resolver rejects: onSubmit is not called
              /\ todoForm' = [draft |-> title, titleError |-> issue, rootError |-> None]
              /\ ev' = REv("createRejected")
              /\ UNCHANGED <<todos, isLoading, error, reqs>>
         ELSE LET data == todoSchemaParse([title |-> title, completed |-> FALSE])
                  submitted == [draft |-> title, titleError |-> None, rootError |-> None] IN
              /\ IF createTodoSchemaOk(data)
                 THEN /\ Len(reqs) < MaxReqs
                      /\ Len(todos) + PendingCreates < MaxTodos
                      /\ isLoading' = TRUE
                      /\ error' = None
                      /\ reqs' = Append(reqs, Req("create", 0, createTodoSchemaParse(data)))
                      /\ todoForm' = submitted
                      /\ ev' = REv("createStart")
                 ELSE \* createTodo throws before the request; addTodo returns false
                      /\ isLoading' = FALSE
                      /\ error' = todoSchemaIssue(data.title)
                      /\ todoForm' = onSubmitSettled(submitted, todoStoreSettles("rejected"),
                                                     FALSE, todoSchemaIssue(data.title))
                      /\ ev' = [REv("createSettled") EXCEPT
                                   !.ret = "false",
                                   !.promise = todoStoreSettles("rejected")]
                      /\ UNCHANGED reqs
              /\ UNCHANGED todos
    /\ UNCHANGED <<sessionVars, localVars, hookVars>>
    /\ hist' = Observed

\* POST /todos answers; addTodo and the form's onSubmit continue
SettleCreateOk(i, id) ==
    /\ i \in 1..Len(reqs) /\ reqs[i].kind = "create"
    /\ LET newTodo == serverCreated(reqs[i].body, id) IN
         /\ reqs' = RemoveAt(reqs, i)
         /\ isLoading' = FALSE
         /\ IF todoItemSchemaOk(newTodo)
            THEN /\ todos' = addTodoResolved(todos, newTodo)
                 /\ todoForm' = onSubmitSettled(todoForm, todoStoreSettles("fulfilled"),
                                                TRUE, "")
                 /\ ev' = [REv("createSettled") EXCEPT
                              !.ret = "true", !.id = id, !.http = "ok",
                              !.promise = todoStoreSettles("fulfilled")]
                 /\ UNCHANGED error
            ELSE /\ error' = ValidationFailedMessage
                 /\ ev' = [REv("createSettled") EXCEPT
                              !.ret = "false", !.id = id, !.http = "ok",
                              !.promise = todoStoreSettles("rejected")]
                 /\ todoForm' = onSubmitSettled(todoForm, todoStoreSettles("rejected"),
                                                FALSE, ValidationFailedMessage)
                 /\ UNCHANGED todos
    /\ UNCHANGED <<sessionVars, localVars, hookVars>>
    /\ hist' = Observed

\* toggleTodo(id)
ToggleTodo(id) ==
    /\ IF Find(todos, id) = {}
       THEN /\ ev' = [REv("toggleNoop") EXCEPT !.id = id]
            /\ UNCHANGED reqs
       ELSE /\ Len(reqs) < MaxReqs
            /\ LET todo == todos[CHOOSE i \in Find(todos, id) : TRUE] IN
                 reqs' = Append(reqs, Req("toggle", id, toggleRequestBody(todo)))
            /\ ev' = [REv("toggleStart") EXCEPT !.id = id]
    /\ UNCHANGED <<todos, isLoading, error, todoForm, sessionVars, localVars, hookVars>>
    /\ hist' = Observed

SettleToggleOk(i) ==
    /\ i \in 1..Len(reqs) /\ reqs[i].kind = "toggle"
    /\ LET updatedTodo == serverUpdated(reqs[i].id, reqs[i].body) IN
         /\ reqs' = RemoveAt(reqs, i)
         /\ IF todoItemSchemaOk(updatedTodo)
            THEN /\ todos' = toggleResolved(todos, reqs[i].id, updatedTodo)
                 /\ ev' = [REv("toggleSettled") EXCEPT
                              !.ret = "ok", !.id = reqs[i].id, !.http = "ok",
                              !.promise = todoStoreSettles("fulfilled")]
                 /\ UNCHANGED error
            ELSE /\ error' = ValidationFailedMessage
                 /\ ev' = [REv("toggleSettled") EXCEPT
                              !.ret = "false", !.id = reqs[i].id, !.http = "ok",
                              !.promise = todoStoreSettles("rejected")]
                 /\ UNCHANGED todos
    /\ UNCHANGED <<isLoading, todoForm, sessionVars, localVars, hookVars>>
    /\ hist' = Observed

\* deleteTodo(id)
DeleteTodo(id) ==
    /\ Len(reqs) < MaxReqs
    /\ reqs' = Append(reqs, Req("delete", id, NoBody))
    /\ ev' = [REv("deleteStart") EXCEPT !.id = id]
    /\ UNCHANGED <<todos, isLoading, error, todoForm, sessionVars, localVars, hookVars>>
    /\ hist' = Observed

SettleDeleteOk(i) ==
    /\ i \in 1..Len(reqs) /\ reqs[i].kind = "delete"
    /\ reqs' = RemoveAt(reqs, i)
    /\ todos' = deleteResolved(todos, reqs[i].id)
    /\ ev' = [REv("deleteSettled") EXCEPT !.ret = "ok", !.id = reqs[i].id, !.http = "ok",
                                        !.promise = todoStoreSettles("fulfilled")]
    /\ UNCHANGED <<isLoading, error, todoForm, sessionVars, localVars, hookVars>>
    /\ hist' = Observed

\* `set({ error: null })` with the error kept
clearErrorKeeps(err) == err

\* `set({ error: null })`: the error after clearError
clearError(err) == None

\* clearError()
ClearError ==
    /\ error' = clearError(error)
    /\ ev' = REv("clearError")
    /\ UNCHANGED <<todos, isLoading, reqs, todoForm, sessionVars, localVars, hookVars>>
    /\ hist' = Observed

RemoteNext ==
    \/ FetchTodos
    \/ \E i \in 1..Len(reqs), list \in ServerLists : SettleFetchOk(i, list)
    \/ \E i \in 1..Len(reqs), errBody \in ErrorBodies : SettleFailed(i, errBody)
    \/ \E title \in StoreTitles : SubmitTodoForm(title)
    \/ \E i \in 1..Len(reqs), id \in ServerIds : SettleCreateOk(i, id)
    \/ \E id \in ServerIds : ToggleTodo(id)
    \/ \E i \in 1..Len(reqs) : SettleToggleOk(i)
    \/ \E id \in ServerIds : DeleteTodo(id)
    \/ \E i \in 1..Len(reqs) : SettleDeleteOk(i)
    \/ ClearError

InitRemote ==
    /\ SessionQuiet /\ RemoteInit /\ LocalQuiet /\ HookQuiet
    /\ ev = REv("init")
    /\ hist = HistIdle("off")

RemoteSpec == InitRemote /\ [][RemoteNext]_vars

\* the creation path alone, over every title
FormNext ==
    \/ \E title \in TitleInputs : SubmitTodoForm(title)
    \/ \E i \in 1..Len(reqs), id \in ServerIds : SettleCreateOk(i, id)
    \/ \E i \in 1..Len(reqs), errBody \in ErrorBodies : SettleFailed(i, errBody)
    \/ \E id \in ServerIds : DeleteTodo(id)
    \/ \E i \in 1..Len(reqs) : SettleDeleteOk(i)

FormSpec == InitRemote /\ [][FormNext]_vars

(***************************************************************************)
(* Properties of task creation (RemoteSpec, FormSpec).                     *)
(***************************************************************************)
InRange(title) == Len(title) >= 3 /\ Len(title) <= 50

\* C8: when the POST of a create answers successfully (the title's length being
\* within [3, 50]), addTodo returns true and the collection becomes the previous
\* collection followed by exactly the returned item, with completed = false; the
\* earlier tasks keep their values and order, and so do the rendered rows.
C8_CreateAppends ==
    [][(ev'.kind = "createSettled" /\ ev'.http = "ok") =>
          \E i \in 1..Len(reqs) :
              /\ reqs[i].kind = "create"
              /\ reqs' = RemoveAt(reqs, i)
              /\ InRange(reqs[i].body.title)
              /\ ev'.ret = "true"
              /\ todos' = todos \o <<[id |-> ev'.id, title |-> reqs[i].body.title,
                                      completed |-> FALSE]>>
              /\ TodoListRows(todos') = TodoListRows(todos) \o <<ev'.id>>
              /\ ~isLoading']_vars

C8_Witness ==
    /\ ev.kind = "createSettled" /\ ev.ret = "true"
    /\ Len(todos) = 2
    /\ todos[2] = [id |-> ev.id, title |-> Rep("a", 50), completed |-> FALSE]

\* C9: the schema-bound form accepts a title exactly when 3 <= length <= 50, both
\* bounds included.  An accepted title goes to addTodo and one POST; a rejected
\* one shows the field message, does not invoke addTodo (isLoading and error
\* untouched), sends no request and leaves the collection alone.
C9_TitleAcceptance ==
    [][(ev'.kind \in {"createRejected", "createStart"}) =>
          LET title == todoForm'.draft IN
            IF InRange(title)
            THEN /\ ev'.kind = "createStart"
                 /\ todoForm'.titleError = None
                 /\ reqs' = reqs \o <<[kind |-> "create", id |-> 0,
                                       body |-> [title |-> title, completed |-> FALSE]]>>
                 /\ isLoading'
                 /\ todos' = todos
            ELSE /\ ev'.kind = "createRejected"
                 /\ todoForm'.titleError =
                        (IF Len(title) < 3 THEN "Title must be at least 3 characters"
                         ELSE "Title must be less than 50 characters")
                 /\ reqs' = reqs
                 /\ todos' = todos
                 /\ isLoading' = isLoading /\ error' = error]_vars

C9_Witness ==
    /\ ev.kind = "createRejected"
    /\ todoForm.draft = Rep("a", 2)
    /\ todoForm.titleError = TooShortMessage
    /\ Len(todos) > 0

(***************************************************************************)
(* Task entity, local-only mode: useTodos over useLocalStorage('todos'),   *)
(* fed by the creation form.                                               *)
(***************************************************************************)
\* JSON.stringify / JSON.parse of the collection
jsonStringify(ts) ==
    [i \in 1..Len(ts) |->
        [id |-> ts[i].id, title |-> ts[i].title,
         completed |-> IF ts[i].completed THEN "true" ELSE "false"]]

jsonParse(text) ==
    [i \in 1..Len(text) |->
        [id |-> text[i].id, title |-> text[i].title,
         completed |-> text[i].completed = "true"]]

\* useLocalStorage: the state a fresh hook starts with, and the slot its effect writes
useLocalStorageInitialIgnoresSlot(slot, initialValue) == initialValue

useLocalStorageInitial(slot, initialValue) ==
    IF slot.present THEN jsonParse(slot.value) ELSE initialValue

useLocalStorageWrite(value) == [present |-> TRUE, value |-> jsonStringify(value)]

\* useTodos
newLocalTodo(title, time) == [id |-> time, title |-> title, completed |-> FALSE]

localAddTodoFirst(prev, title, time) == <<newLocalTodo(title, time)>> \o prev

localAddTodo(prev, title, time) == Append(prev, newLocalTodo(title, time))

localToggleTodo(prev, id) ==
    [i \in 1..Len(prev) |->
        IF prev[i].id = id THEN [prev[i] EXCEPT !.completed = ~prev[i].completed]
        ELSE prev[i]]

localDeleteTodo(prev, id) == deleteResolved(prev, id)

localClearUncompleted(prev) ==
    LET F[i \in 0..Len(prev)] ==
          IF i = 0 THEN <<>>
          ELSE IF prev[i].completed THEN Append(F[i - 1], prev[i]) ELSE F[i - 1]
    IN F[Len(prev)]

localClearCompleted(prev) ==
    LET F[i \in 0..Len(prev)] ==
          IF i = 0 THEN <<>>
          ELSE IF ~prev[i].completed THEN Append(F[i - 1], prev[i]) ELSE F[i - 1]
    IN F[Len(prev)]

\* String.prototype.trim
Trim(str) ==
    LET solid == {i \in 1..Len(str) : str[i] # " "} IN
      IF solid = {} THEN <<>>
      ELSE SubSeq(str, CHOOSE i \in solid : \A j \in solid : i <= j,
                       CHOOSE i \in solid : \A j \in solid : i >= j)

\* TodoForm bound to todoSchema: the resolver lets onFormSubmit run
zodFormPasses(title) == todoSchemaIssue(title) = None

\* TodoForm with its own draft state: handleSubmit returns early on a blank draft
handleSubmitPasses(title) == Trim(title) # <<>>

\* does the mounted creation form ("zod" or "useState") hand `title` to onSubmit?
formPasses(variant, title) ==
    IF variant = "zod" THEN zodFormPasses(title) ELSE handleSubmitPasses(title)

\* history record of a step of the local mode: `draft` is what the form held at
\* submit, `invoked` how many times onSubmit ran, `arg` what it was given
LEv(kind) == [kind |-> kind, id |-> 0, draft |-> <<>>, invoked |-> 0, arg |-> <<>>]

LocalTitles == {Rep(" ", 3), Rep("a", 1), Rep("a", 3)}

PersistedLists == {<<>>, <<[id |-> 0, title |-> Rep("a", 3), completed |-> TRUE]>>}

\* the user types `title` and submits the creation form
LocalSubmit(title) ==
    /\ IF formPasses(formVariant, title)
       THEN /\ Len(localTodos) < MaxTodos
            /\ localTodos' = localAddTodo(localTodos, title, now)
            /\ localForm' = EmptyForm
            /\ ev' = [LEv("added") EXCEPT !.id = now, !.draft = title,
                                          !.invoked = 1, !.arg = title]
       ELSE /\ localForm' =
                  [draft |-> title,
                   titleError |-> IF formVariant = "zod" THEN todoSchemaIssue(title)
                                  ELSE None,
                   rootError |-> None]
            /\ ev' = [LEv("notAdded") EXCEPT !.draft = title]
            /\ UNCHANGED localTodos
    /\ lsTodos' = useLocalStorageWrite(localTodos')
    /\ UNCHANGED <<formVariant, now, sessionVars, remoteVars, hookVars>>
    /\ hist' = Observed

LocalToggle(id) ==
    /\ localTodos' = localToggleTodo(localTodos, id)
    /\ lsTodos' = useLocalStorageWrite(localTodos')
    /\ ev' = [LEv("toggled") EXCEPT !.id = id]
    /\ UNCHANGED <<localForm, formVariant, now, sessionVars, remoteVars, hookVars>>
    /\ hist' = Observed

LocalDelete(id) ==
    /\ localTodos' = localDeleteTodo(localTodos, id)
    /\ lsTodos' = useLocalStorageWrite(localTodos')
    /\ ev' = [LEv("deleted") EXCEPT !.id = id]
    /\ UNCHANGED <<localForm, formVariant, now, sessionVars, remoteVars, hookVars>>
    /\ hist' = Observed

LocalClearCompleted ==
    /\ localTodos' = localClearCompleted(localTodos)
    /\ lsTodos' = useLocalStorageWrite(localTodos')
    /\ ev' = LEv("cleared")
    /\ UNCHANGED <<localForm, formVariant, now, sessionVars, remoteVars, hookVars>>
    /\ hist' = Observed

\* time passes
Tick ==
    /\ now < MaxTime
    /\ now' = now + 1
    /\ ev' = LEv("tick")
    /\ UNCHANGED <<localTodos, lsTodos, localForm, formVariant, sessionVars, remoteVars, hookVars>>
    /\ hist' = Observed

\* the page is loaded again: a fresh hook reads the slot
LocalRemount ==
    /\ localTodos' = useLocalStorageInitial(lsTodos, <<>>)
    /\ lsTodos' = useLocalStorageWrite(localTodos')
    /\ localForm' = EmptyForm
    /\ ev' = LEv("mounted")
    /\ UNCHANGED <<formVariant, now, sessionVars, remoteVars, hookVars>>
    /\ hist' = Observed

LocalIds == {localTodos[i].id : i \in 1..Len(localTodos)}

LocalNext ==
    \/ \E title \in LocalTitles : LocalSubmit(title)
    \/ \E id \in LocalIds : LocalToggle(id)
    \/ \E id \in LocalIds : LocalDelete(id)
    \/ LocalClearCompleted
    \/ Tick
    \/ LocalRemount

LocalInit ==
    /\ formVariant \in {"zod", "useState"}
    /\ localTodos \in PersistedLists
    /\ lsTodos = useLocalStorageWrite(localTodos)
    /\ localForm = EmptyForm
    /\ now = 1

InitLocal ==
    /\ SessionQuiet /\ RemoteInit /\ LocalInit /\ HookQuiet
    /\ ev = LEv("mounted")
    /\ hist = HistIdle("off")

LocalSpec == InitLocal /\ [][LocalNext]_vars

WellFormed(todo) ==
    /\ "title" \in DOMAIN todo /\ InRange(todo.title)
    /\ "completed" \in DOMAIN todo /\ todo.completed \in BOOLEAN

\* C10 as stated: every task of the collection, remote-backed or local-only, has
\* a title whose length is within the bounds and a boolean completed field.
C10_TasksWellFormed ==
    /\ \A i \in 1..Len(todos) : WellFormed(todos[i])
    /\ \A i \in 1..Len(localTodos) : WellFormed(localTodos[i])

\* the part of C10 that the schema-bound form guarantees in local-only mode
C10_SchemaFormWellFormed ==
    formVariant = "zod" => \A i \in 1..Len(localTodos) : WellFormed(localTodos[i])

(***************************************************************************)
(* Properties of the collection.                                           *)
(***************************************************************************)
UniqueIds(ts) == \A i, j \in 1..Len(ts) : ts[i].id = ts[j].id => i = j

\* C11 as stated: no two tasks of the collection have the same id, in the
\* remote-backed collection and in the local-only one, whatever the time between
\* two creations.
C11_UniqueIds ==
    /\ UniqueIds(todos)
    /\ UniqueIds(localTodos)

(***************************************************************************)
(* Toggles alone, followed by the observer, in either mode: the            *)
(* remote-backed store after fetches, or the local-only collection.        *)
(***************************************************************************)
ToggleTitles == {Rep("a", 3)}

ToggleNext ==
    \/ hist.mode = "remote" /\ FetchTodos
    \/ hist.mode = "remote" /\ \E i \in 1..Len(reqs), list \in ServerLists : SettleFetchOk(i, list)
    \/ hist.mode = "remote" /\ \E id \in ServerIds : ToggleTodo(id)
    \/ hist.mode = "remote" /\ \E i \in 1..Len(reqs) : SettleToggleOk(i)
    \/ hist.mode = "remote" /\ \E i \in 1..Len(reqs), errBody \in ErrorBodies : SettleFailed(i, errBody)
    \/ hist.mode = "local" /\ \E title \in ToggleTitles : LocalSubmit(title)
    \/ hist.mode = "local" /\ \E id \in LocalIds : LocalToggle(id)
    \/ hist.mode = "local" /\ Tick

InitToggle ==
    /\ SessionQuiet /\ RemoteInit /\ HookQuiet
    /\ \/ hist = HistIdle("remote") /\ LocalQuiet /\ ev = REv("init")
       \/ hist = HistIdle("local") /\ LocalInit /\ ev = LEv("mounted")

ToggleSpec == InitToggle /\ [][ToggleNext]_vars

Collection == IF hist.mode = "local" THEN localTodos ELSE todos

\* C12: when the same task has been toggled twice, the second toggle issued
\* after the first was applied, the collection is again what it was before the
\* first toggle: the flag is back, and every other task, every other field, the
\* length and the order are as they were.
C12_ToggleTwice ==
    (hist.phase = "done" /\ ~hist.overlap) => Collection = hist.before

C12_LocalReached ==
    /\ hist.phase = "done" /\ hist.mode = "local" /\ Len(localTodos) = 2

C12_Witness ==
    /\ hist.phase = "done" /\ ~hist.overlap
    /\ hist.mode = "remote"
    /\ Len(todos) = 2
    /\ ev.kind = "toggleSettled"

\* C13 as stated: when the same task has been toggled twice, the second toggle
\* issued before the response to the first arrived, the collection is what it
\* was before the first toggle once both responses have been applied.
C13_DoubleClickToggle ==
    (hist.phase = "done" /\ hist.overlap) => Collection = hist.before

Without(ts, X) ==
    LET Other(t) == t.id # X IN SelectSeq(ts, Other)

\* C14: a successful delete(X) leaves the previous collection without the item
\* of id X: every item of another id stays, unmodified and in the same relative
\* order, nothing is added, exactly one item goes when X is the id of exactly one
\* item, and the rendered rows are the rows of the remaining items.  Remote-backed
\* (the DELETE answered) and local-only.
C14_DeleteFrame ==
    [][/\ (ev'.kind = "deleteSettled" /\ ev'.http = "ok") =>
            /\ todos' = Without(todos, ev'.id)
            /\ TodoListRows(todos') = SelectSeq(TodoListRows(todos), LAMBDA r : r # ev'.id)
            /\ \A i \in 1..Len(todos') : todos'[i].id # ev'.id
            /\ Cardinality({i \in 1..Len(todos) : todos[i].id = ev'.id}) = 1
                   => Len(todos') = Len(todos) - 1
       /\ ev'.kind = "deleted" =>
            /\ localTodos' = Without(localTodos, ev'.id)
            /\ TodoListRows(localTodos') =
                   SelectSeq(TodoListRows(localTodos), LAMBDA r : r # ev'.id)]_vars

C14_Witness ==
    /\ ev.kind = "deleteSettled" /\ ev.http = "ok"
    /\ Len(todos) = 1
    /\ todos[1].id # ev.id

C14_LocalReached ==
    /\ ev.kind = "deleted"
    /\ Len(localTodos) = 1

Uncompleted(ts) == SelectSeq(ts, LAMBDA t : ~t.completed)

\* C15: clearCompleted turns the collection into exactly its uncompleted tasks,
\* unchanged and in their original relative order; applied again right away it
\* changes nothing.
C15_ClearCompleted ==
    [][ev'.kind = "cleared" =>
          /\ localTodos' = Uncompleted(localTodos)
          /\ \A i \in 1..Len(localTodos') : ~localTodos'[i].completed
          /\ localClearCompleted(localTodos') = localTodos'
          /\ ev.kind = "cleared" => localTodos' = localTodos]_vars

C15_Witness ==
    /\ ev.kind = "cleared"
    /\ Len(localTodos) = 1
    /\ ~localTodos[1].completed
    /\ lsTodos = useLocalStorageWrite(localTodos)

(***************************************************************************)
(* Properties of the list container.                                       *)
(***************************************************************************)
View == TodoListContainer(todos, isLoading, error)

\* C16: the list container renders the loading indicator if isLoading; else
\* the error message if error is set; else the list, which is the empty-state
\* message with no rows iff the collection is empty and otherwise one row per
\* task in the store's order.  Never two of them.
C16_ContainerRenders ==
    /\ View.shows \in {"loading", "error", "empty", "list"}
    /\ isLoading => View.shows = "loading" /\ View.rows = <<>>
    /\ (~isLoading /\ error # None) =>
           View.shows = "error" /\ View.message = error /\ View.rows = <<>>
    /\ (~isLoading /\ error = None) =>
           /\ View.shows = "empty" <=> todos = <<>>
           /\ View.shows = "list" <=> todos # <<>>
           /\ Len(View.rows) = Len(todos)
           /\ \A i \in 1..Len(todos) : View.rows[i] = todos[i].id

C16_Witness ==
    /\ isLoading /\ error # None /\ Len(todos) = 2
    /\ View.shows = "loading"

\* C17 as stated: whenever a fetch, create, toggle or delete request is in
\* flight, isLoading is true and the container shows the loading indicator.
C17_LoadingWhileInFlight ==
    reqs # <<>> => isLoading /\ View.shows = "loading"

\* C18 as stated: operations are issued in the order the user triggered them (a
\* new request goes behind those in flight) and resolved in that order (the
\* request whose result is applied is the oldest one in flight).
C18_ResolvedInTriggerOrder ==
    [][/\ Len(reqs') > Len(reqs) => SubSeq(reqs', 1, Len(reqs)) = reqs
       /\ Len(reqs') < Len(reqs) => reqs' = Tail(reqs)]_vars

(***************************************************************************)
(* useKeyPress (shared/lib/hooks/useKeyPress.js): a keydown listener on    *)
(* window, added by the effect and removed by its cleanup.                 *)
(***************************************************************************)
\* handleKeyPress of one render generation of one component
Handler(owner, gen) == [owner |-> owner, targetKey |-> targetKey(owner), gen |-> gen]

addEventListener(ls, h) == ls \cup {h}

removeEventListenerNoop(ls, h) == ls

removeEventListener(ls, h) == ls \ {h}

\* the cleanup the effect of render `gen` returned: it removes the handleKeyPress
\* of that render
effectCleanupNewest(ls, owner, gen) == removeEventListener(ls, Handler(owner, gen + 1))

effectCleanup(ls, owner, gen) == removeEventListener(ls, Handler(owner, gen))

\* handleKeyPress(event): does it call the callback?
handleKeyPress(h, key) == key = h.targetKey

Keys == {"Escape", "c", "Enter"}

\* `changed` is what a render changed, `fired` the handlers whose callback ran
KEv(kind) ==
    [kind |-> kind, key |-> None, owner |-> None, calls |-> [o \in Owners |-> 0],
     changed |-> None, fired |-> {}]

\* what a new render may change: nothing, the callback (or the key: either makes
\* handleKeyPress a new function), or only an entry of deps
Changes == {"none", "callback", "deps"}

\* the component mounts: the effect runs
Mount(o) ==
    /\ ~comps[o].mounted
    /\ comps[o].gen < MaxRenders
    /\ comps' = [comps EXCEPT ![o] = [mounted |-> TRUE, gen |-> comps[o].gen + 1]]
    /\ listeners' = addEventListener(listeners, Handler(o, comps[o].gen + 1))
    /\ ev' = [KEv("mount") EXCEPT !.owner = o]
    /\ UNCHANGED <<sessionVars, remoteVars, localVars, genericFormVars, hist>>

\* the component renders again; when the callback it passes is a new function
\* (`changed`), handleKeyPress is a new function too and the effect runs again:
\* cleanup of the old one, then subscription of the new one
Rerender(o, changed) ==
    /\ comps[o].mounted
    /\ IF changed = "callback"
       THEN /\ comps[o].gen < MaxRenders
            /\ comps' = [comps EXCEPT ![o].gen = comps[o].gen + 1]
            /\ listeners' = addEventListener(
                                effectCleanup(listeners, o, comps[o].gen),
                                Handler(o, comps[o].gen + 1))
       ELSE IF changed = "deps"
       THEN \* handleKeyPress is the same function: removed, then added again
            /\ listeners' = addEventListener(
                                effectCleanup(listeners, o, comps[o].gen),
                                Handler(o, comps[o].gen))
            /\ UNCHANGED comps
       ELSE UNCHANGED <<comps, listeners>>
    /\ ev' = [KEv("render") EXCEPT !.owner = o, !.changed = changed]
    /\ UNCHANGED <<sessionVars, remoteVars, localVars, genericFormVars, hist>>

\* the component is torn down: the cleanup runs
Unmount(o) ==
    /\ comps[o].mounted
    /\ comps' = [comps EXCEPT ![o].mounted = FALSE]
    /\ listeners' = effectCleanup(listeners, o, comps[o].gen)
    /\ ev' = [KEv("unmount") EXCEPT !.owner = o]
    /\ UNCHANGED <<sessionVars, remoteVars, localVars, genericFormVars, hist>>

\* a keydown event is dispatched on window: every listener runs
KeyDown(key) ==
    /\ ev' = [KEv("keydown") EXCEPT
                 !.key = key,
                 !.fired = {h \in listeners : handleKeyPress(h, key)},
                 !.calls = [o \in Owners |->
                              Cardinality({h \in listeners :
                                             h.owner = o /\ handleKeyPress(h, key)})]]
    /\ UNCHANGED <<comps, listeners, sessionVars, remoteVars, localVars, genericFormVars, hist>>

KeyNext ==
    \/ \E o \in Owners : Mount(o)
    \/ \E o \in Owners, changed \in Changes : Rerender(o, changed)
    \/ \E o \in Owners : Unmount(o)
    \/ \E key \in Keys : KeyDown(key)

InitKey ==
    /\ SessionQuiet /\ RemoteInit /\ LocalQuiet /\ HookQuiet
    /\ ev = KEv("init")
    /\ hist = HistIdle("off")

KeySpec == InitKey /\ [][KeyNext]_vars

\* C19: on a keydown event the callback of a subscription for key K runs (once)
\* iff the event's key is K and the owning component is mounted; it never runs
\* for an event delivered after the component was unmounted.
C19_KeyPress ==
    [][ev'.kind = "keydown" =>
          \A o \in Owners :
              /\ ev'.calls[o] > 0 <=> (comps[o].mounted /\ ev'.key = targetKey(o))
              /\ ev'.calls[o] <= 1
              /\ ~comps[o].mounted => ev'.calls[o] = 0]_vars

C19_Witness ==
    /\ ev.kind = "keydown" /\ ev.key = "Escape"
    /\ ~comps["form"].mounted /\ comps["form"].gen = 2
    /\ ev.calls["form"] = 0
    /\ comps["app"].mounted

C19_FiredReached ==
    /\ ev.kind = "keydown" /\ ev.key = "Escape"
    /\ comps["form"].mounted /\ comps["form"].gen = 2
    /\ ev.calls["form"] = 1 /\ ev.calls["app"] = 0

MemberValues == {Absent, JNull, JStr("Not Found"), JStr(""), JNum(404), JMap, JArray}

ErrorInputs ==
    {JBody(m, c, d, x) : m \in MemberValues, c \in {Absent, JNull, JStr("404"), JNum(404)},
                         d \in {Absent, JNull, JMap, JArray}, x \in BOOLEAN}
      \cup {JOther(type) : type \in {"undefined", "null", "string", "number", "array"}}

VEv(kind) == [kind |-> kind, data |-> NoResponse, outcome |-> [raised |-> FALSE, value |-> DefaultApiError]]

\* validateApiError is called with `data`
ValidateError(data) ==
    /\ ev' = [VEv("validateApiError") EXCEPT !.data = data,
                                             !.outcome = validateApiErrorOutcome(data)]
    /\ UNCHANGED <<sessionVars, remoteVars, localVars, hookVars, hist>>

ValidateNext == \E data \in ErrorInputs : ValidateError(data)

InitValidate ==
    /\ SessionQuiet /\ RemoteInit /\ LocalQuiet /\ HookQuiet
    /\ ev = VEv("init")
    /\ hist = HistIdle("off")

ValidateSpec == InitValidate /\ [][ValidateNext]_vars

\* an object with a string message, a code that is absent or a number, and
\* details that are absent or a map
WellFormedError(data) ==
    /\ data.t = "object"
    /\ data.message.t = "string"
    /\ data.code.t = "undefined" \/ data.code.t = "number"
    /\ data.details.t = "undefined" \/ data.details.t = "object"

\* C21: validateApiError never raises; for a well-formed error object it returns
\* the object's message, code and details, and for anything else exactly
\* {message: 'An unexpected error occurred', code: 500}.
C21_ValidateApiError ==
    ev.kind = "validateApiError" =>
        /\ ~ev.outcome.raised
        /\ IF WellFormedError(ev.data)
           THEN /\ ev.outcome.value.message = ev.data.message.s
                /\ ev.outcome.value.code = ev.data.code
                /\ ev.outcome.value.details = ev.data.details
           ELSE /\ ev.outcome.value.message = "An unexpected error occurred"
                /\ ev.outcome.value.code = JNum(500)
                /\ ev.outcome.value.details = Absent

C21_Witness ==
    /\ ev.kind = "validateApiError"
    /\ ev.data = JBody(JNum(404), Absent, Absent, TRUE)
    /\ ev.outcome.value = DefaultApiError

(***************************************************************************)
(* Properties of failed calls (RemoteSpec).                                *)
(***************************************************************************)
\* the message a failed call is to be reported with
NormalizedMessage(data) ==
    IF WellFormedError(data) THEN data.message.s ELSE "An unexpected error occurred"

LoadingRequests(rs) == {i \in 1..Len(rs) : rs[i].kind \in {"fetch", "create"}}

C22_StillLoadingReached ==
    /\ ev.http = "error" /\ ev.kind = "toggleSettled"
    /\ ev.data = MalformedBody
    /\ isLoading

(***************************************************************************)
(* useForm, the generic form-state hook (shared/lib/hooks/useForm.js).     *)
(***************************************************************************)
RequiredMessage == "This field is required"

\* `!values[key]` for the strings a field holds
isEmptyValue(v) == v = ""

\* `if (errors[name])`: undefined and '' are falsy
hasError(e) == e # None /\ e # ""

newErrorsAll(values) == [f \in Fields |-> RequiredMessage]

\* handleSubmit: the errors it collects (None: the key is not in the object)
newErrors(values) ==
    [f \in Fields |-> IF isEmptyValue(values[f]) THEN RequiredMessage ELSE None]

noErrors(errs) == \A f \in Fields : errs[f] = None

FieldInputs == {"", " ", "a"}

InitialValueSets == {BlankValues, [BlankValues EXCEPT !["note"] = "a"]}

FEv(kind) == [kind |-> kind, invoked |-> FALSE, arg |-> BlankValues]

\* handleChange(e)
Change(name, value) ==
    /\ formValues' = [formValues EXCEPT ![name] = value]
    /\ formErrors' = IF hasError(formErrors[name])
                     THEN [formErrors EXCEPT ![name] = ""]
                     ELSE formErrors
    /\ ev' = FEv("formChange")
    /\ UNCHANGED <<formInitial, keyVars, sessionVars, remoteVars, localVars, hist>>

\* handleSubmit(onSubmit)(e)
Submit ==
    /\ IF noErrors(newErrors(formValues))
       THEN /\ ev' = [FEv("formSubmit") EXCEPT !.invoked = TRUE, !.arg = formValues]
            /\ formValues' = formInitial
            /\ UNCHANGED formErrors
       ELSE /\ ev' = FEv("formSubmit")
            /\ formErrors' = newErrors(formValues)
            /\ UNCHANGED formValues
    /\ UNCHANGED <<formInitial, keyVars, sessionVars, remoteVars, localVars, hist>>

\* reset()
Reset ==
    /\ formValues' = formInitial
    /\ formErrors' = [f \in Fields |-> None]
    /\ ev' = FEv("formReset")
    /\ UNCHANGED <<formInitial, keyVars, sessionVars, remoteVars, localVars, hist>>

GenericFormNext ==
    \/ \E name \in Fields, value \in FieldInputs : Change(name, value)
    \/ Submit
    \/ Reset

InitGenericForm ==
    /\ SessionQuiet /\ RemoteInit /\ LocalQuiet
    /\ listeners = {}
    /\ comps = [o \in Owners |-> [mounted |-> FALSE, gen |-> 0]]
    /\ formInitial \in InitialValueSets
    /\ formValues = formInitial
    /\ formErrors = [f \in Fields |-> None]
    /\ ev = FEv("init")
    /\ hist = HistIdle("off")

GenericFormSpec == InitGenericForm /\ [][GenericFormNext]_vars

EmptyFields == {f \in Fields : formValues[f] = ""}

\* C23: submit invokes the caller's handler iff no field value is empty; then the
\* handler receives the current values and values go back to the initial values;
\* otherwise the handler is not invoked, values stay, and errors holds 'This
\* field is required' for exactly the empty fields.
C23_GenericFormSubmit ==
    [][ev'.kind = "formSubmit" =>
          /\ ev'.invoked <=> EmptyFields = {}
          /\ EmptyFields = {} =>
                 /\ ev'.arg = formValues
                 /\ formValues' = formInitial
          /\ EmptyFields # {} =>
                 /\ formValues' = formValues
                 /\ \A f \in Fields :
                        formErrors'[f] = "This field is required" <=> f \in EmptyFields
                 /\ \A f \in Fields \ EmptyFields : formErrors'[f] = None]_vars

C23_Witness ==
    /\ ev.kind = "formSubmit" /\ ~ev.invoked
    /\ formValues = [title |-> "", note |-> " "]
    /\ formErrors = [title |-> "This field is required", note |-> None]

C23_InvokedReached ==
    /\ ev.kind = "formSubmit" /\ ev.invoked
    /\ ev.arg = [title |-> "a", note |-> " "]
    /\ formValues = formInitial

(***************************************************************************)
(* Both stores, one at a time: the session store with the router, or the   *)
(* task store.  `ev.store` tells which one the run exercises.              *)
(***************************************************************************)
StoreNext ==
    \/ ev.store = "session" /\ \E route \in Routes : Navigate(route)
    \/ ev.store = "session" /\ FollowRedirect
    \/ ev.store = "session" /\ \E data \in LoginInputs : SubmitLogin(data)
    \/ ev.store = "session" /\ \E i \in 1..Len(calls) : SettleLogin(i)
    \/ ev.store = "session" /\ \E i \in 1..Len(calls) : SettleCheck(i)
    \/ ev.store = "session" /\ Logout
    \/ ev.store = "session" /\ ConstructStore
    \/ ev.store = "todo" /\ FetchTodos
    \/ ev.store = "todo" /\ \E i \in 1..Len(reqs), list \in ServerLists : SettleFetchOk(i, list)
    \/ ev.store = "todo" /\ \E i \in 1..Len(reqs), errBody \in ErrorBodies : SettleFailed(i, errBody)
    \/ ev.store = "todo" /\ \E title \in StoreTitles : SubmitTodoForm(title)
    \/ ev.store = "todo" /\ \E i \in 1..Len(reqs), id \in ServerIds : SettleCreateOk(i, id)
    \/ ev.store = "todo" /\ \E id \in ServerIds : ToggleTodo(id)
    \/ ev.store = "todo" /\ \E i \in 1..Len(reqs) : SettleToggleOk(i)
    \/ ev.store = "todo" /\ \E id \in ServerIds : DeleteTodo(id)
    \/ ev.store = "todo" /\ \E i \in 1..Len(reqs) : SettleDeleteOk(i)

InitStore ==
    /\ RemoteInit /\ LocalQuiet /\ HookQuiet
    /\ hist = HistIdle("off")
    /\ \/ SessionInit /\ ev = Ev("init")
       \/ SessionQuiet /\ ev = REv("init")

StoreSpec == InitStore /\ [][StoreNext]_vars

\* the steps in which an operation of a store settles after its service call
StoreSettled ==
    \/ ev.kind = "loginSettled"
    \/ ev.kind = "checkSettled" /\ ev.op = "checkAuth"
    \/ ev.kind \in {"fetchSettled", "createSettled", "toggleSettled", "deleteSettled"}

\* the service call of the step that settled had failed
ServiceFailed ==
    IF ev.store = "session" THEN ev.ret = "false"
    ELSE ev.http = "error" \/ ev.ret \in {"false", "invalid"}

C24_SessionReached ==
    /\ ev.kind = "checkSettled" /\ ev.op = "checkAuth" /\ ev.ret = "false"
    /\ ev.promise = "resolved"

\* C25: a submit of the creation form with a non-blank draft calls onSubmit exactly
\* once with the draft's text and leaves the draft empty; a submit with an empty
\* or whitespace-only draft does not call onSubmit.
C25_FormSubmit ==
    ev.kind \in {"added", "notAdded"} =>
      IF Trim(ev.draft) # <<>>
      THEN ev.invoked = 1 /\ ev.arg = ev.draft /\ localForm.draft = <<>>
      ELSE ev.invoked = 0

\* the same for the form that keeps its own draft state
C25_UseStateFormSubmit == formVariant = "useState" => C25_FormSubmit

\* C25, second half: a submit with an empty or whitespace-only draft does not
\* call onSubmit, whichever creation form is mounted.
C25_BlankNotSubmitted ==
    (ev.kind \in {"added", "notAdded"} /\ Trim(ev.draft) = <<>>) => ev.invoked = 0

\* the schema-bound form handed a whitespace-only draft to onSubmit
C25_BlankSubmitted ==
    /\ formVariant = "zod" /\ ev.kind = "added"
    /\ Trim(ev.draft) = <<>> /\ ev.invoked = 1

\* C26: a step in which the local addTodo(title) runs leaves the collection one
\* longer; its last task is {id: the current time, title, completed: false} and
\* the tasks before it are the old collection, in the old order.
C26_LocalAddAppends ==
    [][ev'.kind = "added" =>
         /\ Len(localTodos') = Len(localTodos) + 1
         /\ localTodos'[Len(localTodos')] =
              [id |-> now, title |-> ev'.arg, completed |-> FALSE]
         /\ SubSeq(localTodos', 1, Len(localTodos)) = localTodos]_vars

\* addTodo ran on a collection that already held a task
C26_Witness ==
    /\ ev.kind = "added" /\ Len(localTodos) = 2
    /\ localTodos[2].title = ev.arg /\ localTodos[2].id = ev.id

(***************************************************************************)
(* useTodoList with component state (the variant whose toggle and delete   *)
(* only log a failure).  The hook's todos, isLoading and error are kept in *)
(* the variables of the same names; a pending toggle or delete carries the *)
(* `todos` its handler closed over.                                        *)
(***************************************************************************)
FailedToFetch == "Failed to fetch todos"

ListReq(kind, id, body, snapshot) ==
    [kind |-> kind, id |-> id, body |-> body, snapshot |-> snapshot]

\* { ...todo, completed: !todo.completed }
listToggleBody(todo) == [id |-> todo.id, title |-> todo.title, completed |-> ~todo.completed]

\* setTodos(todos.map(t => t.id === id ? updatedTodo : t)), todos of the closure
listToggleResolved(snapshot, id, updatedTodo) ==
    [i \in 1..Len(snapshot) |-> IF snapshot[i].id = id THEN updatedTodo ELSE snapshot[i]]

\* setTodos(todos.filter(t => t.id !== id)), todos of the closure
listDeleteResolved(snapshot, id) == SelectSeq(snapshot, LAMBDA t : t.id # id)

\* fetchTodos()
ListFetchTodos ==
    /\ Len(reqs) < MaxReqs
    /\ isLoading' = TRUE
    /\ error' = None
    /\ reqs' = Append(reqs, ListReq("fetch", 0, NoBody, <<>>))
    /\ ev' = REv("fetchStart")
    /\ UNCHANGED <<todos, todoForm, sessionVars, localVars, hookVars, hist>>

\* getTodos answers: try-branch, then finally
ListSettleFetchOk(i, list) ==
    /\ i \in 1..Len(reqs) /\ reqs[i].kind = "fetch"
    /\ reqs' = RemoveAt(reqs, i)
    /\ todos' = list
    /\ isLoading' = FALSE
    /\ ev' = [REv("fetchSettled") EXCEPT !.ret = "ok", !.http = "ok"]
    /\ UNCHANGED <<error, todoForm, sessionVars, localVars, hookVars, hist>>

\* a request fails: the catch block of its operation runs (and finally, for fetch)
ListSettleFailed(i, errBody) ==
    /\ i \in 1..Len(reqs)
    /\ reqs' = RemoveAt(reqs, i)
    /\ IF reqs[i].kind = "fetch"
       THEN error' = FailedToFetch /\ isLoading' = FALSE
       ELSE UNCHANGED <<error, isLoading>>    \* console.error only
    /\ ev' = [REv(reqs[i].kind \o "Settled") EXCEPT
                 !.ret = "false", !.id = reqs[i].id, !.http = "error", !.data = errBody]
    /\ UNCHANGED <<todos, todoForm, sessionVars, localVars, hookVars, hist>>

\* toggleTodo(id)
ListToggleTodo(id) ==
    /\ IF Find(todos, id) = {}
       THEN /\ ev' = [REv("toggleNoop") EXCEPT !.id = id]
            /\ UNCHANGED reqs
       ELSE /\ Len(reqs) < MaxReqs
            /\ LET todo == todos[CHOOSE i \in Find(todos, id) : TRUE] IN
                 reqs' = Append(reqs, ListReq("toggle", id, listToggleBody(todo), todos))
            /\ ev' = [REv("toggleStart") EXCEPT !.id = id]
    /\ UNCHANGED <<todos, isLoading, error, todoForm, sessionVars, localVars, hookVars, hist>>

ListSettleToggleOk(i) ==
    /\ i \in 1..Len(reqs) /\ reqs[i].kind = "toggle"
    /\ reqs' = RemoveAt(reqs, i)
    /\ todos' = listToggleResolved(reqs[i].snapshot, reqs[i].id,
                                   serverUpdated(reqs[i].id, reqs[i].body))
    /\ ev' = [REv("toggleSettled") EXCEPT !.ret = "ok", !.id = reqs[i].id, !.http = "ok"]
    /\ UNCHANGED <<isLoading, error, todoForm, sessionVars, localVars, hookVars, hist>>

\* deleteTodo(id)
ListDeleteTodo(id) ==
    /\ Len(reqs) < MaxReqs
    /\ reqs' = Append(reqs, ListReq("delete", id, NoBody, todos))
    /\ ev' = [REv("deleteStart") EXCEPT !.id = id]
    /\ UNCHANGED <<todos, isLoading, error, todoForm, sessionVars, localVars, hookVars, hist>>

ListSettleDeleteOk(i) ==
    /\ i \in 1..Len(reqs) /\ reqs[i].kind = "delete"
    /\ reqs' = RemoveAt(reqs, i)
    /\ todos' = listDeleteResolved(reqs[i].snapshot, reqs[i].id)
    /\ ev' = [REv("deleteSettled") EXCEPT !.ret = "ok", !.id = reqs[i].id, !.http = "ok"]
    /\ UNCHANGED <<isLoading, error, todoForm, sessionVars, localVars, hookVars, hist>>

ListNext ==
    \/ ListFetchTodos
    \/ \E i \in 1..Len(reqs), list \in ServerLists : ListSettleFetchOk(i, list)
    \/ \E i \in 1..Len(reqs), errBody \in ErrorBodies : ListSettleFailed(i, errBody)
    \/ \E id \in ServerIds : ListToggleTodo(id)
    \/ \E i \in 1..Len(reqs) : ListSettleToggleOk(i)
    \/ \E id \in ServerIds : ListDeleteTodo(id)
    \/ \E i \in 1..Len(reqs) : ListSettleDeleteOk(i)

\* useState([]), useState(true), useState(null)
InitList ==
    /\ SessionQuiet /\ LocalQuiet /\ HookQuiet
    /\ todos = <<>> /\ isLoading = TRUE /\ error = None
    /\ reqs = <<>> /\ todoForm = EmptyForm
    /\ ev = REv("init")
    /\ hist = HistIdle("off")

ListSpec == InitList /\ [][ListNext]_vars

\* a step in which the API call of fetch-all, create, toggle or delete failed
FailureStep ==
    /\ ev'.http = "error"
    /\ ev'.kind \in {"fetchSettled", "createSettled", "toggleSettled", "deleteSettled"}

\* C27: when the API call of fetch-all, create, toggle or delete fails, the
\* collection is as before the call, error is set to a message, isLoading is
\* false once the call has settled, create has returned false, and the request is
\* gone without a new one being issued.
C27_FailureLeavesState ==
    [][FailureStep =>
         /\ todos' = todos
         /\ error' # None
         /\ ~isLoading'
         /\ ev'.kind = "createSettled" => ev'.ret = "false"
         /\ Len(reqs') = Len(reqs) - 1]_vars

\* what does hold in the store: error is the normalized message of the failure
\* and a failed toggle or delete leaves isLoading as it was
C27_StoreFailure ==
    [][FailureStep =>
         /\ todos' = todos
         /\ error' = NormalizedMessage(ev'.data)
         /\ ev'.kind \in {"fetchSettled", "createSettled"} => ~isLoading'
         /\ ev'.kind \in {"toggleSettled", "deleteSettled"} => isLoading' = isLoading
         /\ ev'.kind = "createSettled" => ev'.ret = "false"
         /\ Len(reqs') = Len(reqs) - 1]_vars

\* a toggle failed in the hook and no error is shown
C27_SilentFailureReached ==
    /\ ev.kind = "toggleSettled" /\ ev.http = "error"
    /\ error = None /\ ~isLoading

\* C28: the step that starts a create, toggle or delete sends its request and
\* leaves the collection as it is; the collection changes only in a step in which
\* a successful response arrives; toggle(id) sends a request only for an id in
\* the collection, and for any other id it sends nothing and changes no state.
C28_WrittenAfterConfirmation ==
    [][/\ ev'.kind \in {"createStart", "toggleStart", "deleteStart"} =>
            todos' = todos /\ Len(reqs') = Len(reqs) + 1
       /\ todos' # todos =>
            /\ ev'.http = "ok"
            /\ ev'.kind \in {"fetchSettled", "createSettled", "toggleSettled",
                              "deleteSettled"}
            /\ Len(reqs') = Len(reqs) - 1
       /\ ev'.kind = "toggleStart" => Holds(todos, ev'.id)
       /\ ev'.kind = "toggleNoop" =>
            /\ ~Holds(todos, ev'.id)
            /\ <<todos, isLoading, error, reqs, todoForm>>' =
                 <<todos, isLoading, error, reqs, todoForm>>]_vars

\* toggle was asked for an id the non-empty collection does not hold
C28_Witness ==
    /\ ev.kind = "toggleNoop" /\ todos # <<>> /\ ~Holds(todos, ev.id)

\* a delete of a task in the collection has started and the task is still there
C28_PendingReached ==
    /\ ev.kind = "deleteStart" /\ Holds(todos, ev.id)
    /\ \E i \in 1..Len(reqs) : reqs[i].kind = "delete" /\ reqs[i].id = ev.id

\* a step in which a create fails at the entity level: the request failed, or the
\* server's answer did not validate
CreateFailureStep ==
    ev'.kind = "createSettled" /\ ev'.ret = "false" /\ ev'.http # None

\* C29: when a create fails at the entity level the creation form shows a
\* root-level error message and its draft is left as it was.
C29_RootErrorShown ==
    [][CreateFailureStep =>
         todoForm'.rootError # None /\ todoForm'.draft = todoForm.draft]_vars

\* what the form bound to the store does: the failure leaves the form as it was,
\* draft kept and no root-level error
C29_FormUntouched ==
    [][CreateFailureStep => todoForm' = todoForm /\ todoForm'.rootError = None]_vars

\* a create failed on the network and the form shows nothing but the draft
C29_SilentFormReached ==
    /\ ev.kind = "createSettled" /\ ev.http = "error"
    /\ todoForm.rootError = None /\ todoForm.draft # <<>> /\ error # None

\* the keydown listeners a component's useKeyPress has registered
ListenersOf(o) == {h \in listeners : h.owner = o}

\* C30: a mounted useKeyPress has exactly one keydown listener registered and an
\* unmounted one none; the registered listener is the handler of the current
\* render (after a change of key, callback or deps the old one is gone and the
\* new one is in place); a key event runs the current callback at most once and
\* never the callback of an earlier render.
C30_OneListener ==
    /\ \A o \in Owners :
         /\ Cardinality(ListenersOf(o)) = IF comps[o].mounted THEN 1 ELSE 0
         /\ comps[o].mounted => ListenersOf(o) = {Handler(o, comps[o].gen)}
    /\ ev.kind = "keydown" =>
         /\ \A o \in Owners : ev.calls[o] <= 1
         /\ \A h \in ev.fired : h.gen = comps[h.owner].gen /\ comps[h.owner].mounted

\* the callback changed in a render and the listener was replaced
C30_Witness ==
    /\ ev.kind = "render" /\ ev.changed = "callback" /\ ev.owner = "form"
    /\ comps["form"].gen = 2
    /\ ListenersOf("form") = {Handler("form", 2)}

\* a key event after the replacement ran the callback of the second render
C30_FiredReached ==
    /\ ev.kind = "keydown" /\ ev.fired = {Handler("form", 2)}
    /\ ev.calls["form"] = 1

(***************************************************************************)
(* Either store while its page lives (the page is never loaded again),     *)
(* with the API and the timers of the session service answering: the       *)
(* oldest outstanding call is always answered in the end.                  *)
(***************************************************************************)
LiveNext ==
    \/ ev.store = "session" /\ \E route \in Routes : Navigate(route)
    \/ ev.store = "session" /\ FollowRedirect
    \/ ev.store = "session" /\ \E data \in LoginInputs : SubmitLogin(data)
    \/ ev.store = "session" /\ \E i \in 1..Len(calls) : SettleLogin(i)
    \/ ev.store = "session" /\ \E i \in 1..Len(calls) : SettleCheck(i)
    \/ ev.store = "session" /\ Logout
    \/ ev.store = "todo" /\ FetchTodos
    \/ ev.store = "todo" /\ \E i \in 1..Len(reqs), list \in ServerLists : SettleFetchOk(i, list)
    \/ ev.store = "todo" /\ \E i \in 1..Len(reqs), errBody \in ErrorBodies : SettleFailed(i, errBody)
    \/ ev.store = "todo" /\ \E title \in StoreTitles : SubmitTodoForm(title)
    \/ ev.store = "todo" /\ \E i \in 1..Len(reqs), id \in ServerIds : SettleCreateOk(i, id)
    \/ ev.store = "todo" /\ \E id \in ServerIds : ToggleTodo(id)
    \/ ev.store = "todo" /\ \E i \in 1..Len(reqs) : SettleToggleOk(i)

\* the oldest outstanding call of the store in use is answered
AnswerOldest ==
    \/ ev.store = "session" /\ (SettleLogin(1) \/ SettleCheck(1))
    \/ /\ ev.store = "todo"
       /\ \/ \E list \in ServerLists : SettleFetchOk(1, list)
          \/ \E errBody \in ErrorBodies : SettleFailed(1, errBody)
          \/ \E id \in ServerIds : SettleCreateOk(1, id)
          \/ SettleToggleOk(1)

LiveSpec == InitStore /\ [][LiveNext]_vars /\ WF_vars(AnswerOldest)

\* one of the first k outstanding requests settles (the later ones move up);
\* a fetch-all or create that settles leaves isLoading false
Answered(k) ==
    \E i \in 1..k :
       /\ i <= Len(reqs)
       /\ reqs' = RemoveAt(reqs, i)
       /\ ev'.kind = reqs[i].kind \o "Settled"
       /\ ev'.promise = "resolved"
       /\ reqs[i].kind \in {"fetch", "create"} => ~isLoading'

\* the oldest outstanding login settles and leaves the session's isLoading false
LoginAnswered ==
    /\ ev'.kind = "loginSettled"
    /\ ev'.promise = "resolved"
    /\ Cardinality(LoginCalls') = Cardinality(LoginCalls) - 1
    /\ ~session'.isLoading

\* C31: with the API answering, every outstanding request is settled in the end:
\* for every place k, unless fewer than k requests are outstanding again and
\* again, one of the k oldest is settled again and again, so no request stays
\* outstanding for ever; a fetch-all or create that settles clears isLoading, and
\* isLoading is false whenever no fetch-all or create is outstanding.  Likewise
\* no login stays outstanding for ever (logins are answered oldest first), a
\* login that settles leaves the session's isLoading false, and that flag is
\* false whenever no login is outstanding.
C31_CallsSettle ==
    /\ [](LoadingRequests(reqs) = {} => ~isLoading)
    /\ [](LoginCalls = {} => ~session.isLoading)
    /\ \A k \in 1..(MaxReqs + 1) : []<>(Len(reqs) < k) \/ []<><<Answered(k)>>_vars
    /\ []<>(LoginCalls = {}) \/ []<><<LoginAnswered>>_vars

\* a create was settled while a toggle was still outstanding, and isLoading is off
C31_Witness ==
    /\ ev.kind = "createSettled" /\ ~isLoading
    /\ reqs # <<>> /\ LoadingRequests(reqs) = {}

\* a login has settled and the session is no longer loading
C31_LoginSettledReached ==
    /\ ev.kind = "loginSettled" /\ ev.ret = "false"
    /\ ~session.isLoading /\ LoginCalls = {}

\* C32: while isLoading is false no fetch-all and no create is outstanding,
\* however such calls overlap.
C32_IdleMeansNoneInFlight == ~isLoading => LoadingRequests(reqs) = {}

\* a fetch-all settled while a create was outstanding: the flag is off too early
C32_EarlyIdleReached ==
    /\ ev.kind = "fetchSettled" /\ ~isLoading
    /\ \E i \in 1..Len(reqs) : reqs[i].kind = "create"

(***************************************************************************)
(* The task store with the observer of created tasks: fetch-all, create    *)
(* and delete in any overlap.                                              *)
(***************************************************************************)
CreatedNext ==
    \/ FetchTodos
    \/ \E i \in 1..Len(reqs), list \in ServerLists : SettleFetchOk(i, list)
    \/ \E i \in 1..Len(reqs), errBody \in ErrorBodies : SettleFailed(i, errBody)
    \/ \E title \in StoreTitles : SubmitTodoForm(title)
    \/ \E i \in 1..Len(reqs), id \in ServerIds : SettleCreateOk(i, id)
    \/ \E id \in ServerIds : DeleteTodo(id)
    \/ \E i \in 1..Len(reqs) : SettleDeleteOk(i)

InitCreated ==
    /\ SessionQuiet /\ RemoteInit /\ LocalQuiet /\ HookQuiet
    /\ ev = REv("init")
    /\ hist = HistIdle("created")

CreatedSpec == InitCreated /\ [][CreatedNext]_vars

\* C33: a task appended by a successful create is in the collection as long as
\* no delete of its id has succeeded, also after a fetch-all that was issued
\* before the create has answered.
C33_CreatedStays ==
    hist.phase \in {"running", "lost"} => Holds(todos, hist.id)

\* a fetch-all issued before the create answered after it and the task is gone
C33_LostReached ==
    /\ hist.phase = "lost" /\ ev.kind = "fetchSettled" /\ ev.ret = "ok"
    /\ ~Holds(todos, hist.id)

\* C34: a successful delete or toggle is applied to the collection as it is when
\* the response arrives: a delete leaves its id out of the collection, and
\* neither brings back a task that is no longer in the collection.  (So after
\* delete(X) and delete(Y) have both succeeded, in any interleaving, neither X
\* nor Y is there, and a toggle answered after a delete does not restore the
\* deleted task.)
C34_AppliedToCurrent ==
    [][(ev'.http = "ok" /\ ev'.kind \in {"toggleSettled", "deleteSettled"}) =>
         /\ \A id \in ServerIds : ~Holds(todos, id) => ~Holds(todos', id)
         /\ ev'.kind = "deleteSettled" => ~Holds(todos', ev'.id)]_vars

\* two deletes overlapped in the store and both tasks are gone
C34_BothDeletedReached ==
    /\ ev.kind = "deleteSettled" /\ ev.http = "ok" /\ ev.id = 2
    /\ todos = <<>> /\ reqs = <<>> /\ ev.store = "todo" /\ ~isLoading

(***************************************************************************)
(* The session store and its router with the observer of logouts.          *)
(***************************************************************************)
InitLogout ==
    /\ SessionInit /\ RemoteInit /\ LocalQuiet /\ HookQuiet
    /\ ev = Ev("init")
    /\ hist = HistIdle("logout")

LogoutSpec == InitLogout /\ [][SessionNext]_vars

\* C35: from a logout until a login started after it succeeds, the session is
\* Anonymous: isAuthenticated is false and durable storage holds no token; a
\* login that was in flight at the logout does not change that.
C35_StaysAnonymous ==
    hist.phase = "running" => ~session.isAuthenticated /\ lsToken = None

\* a login that was in flight at the logout succeeded afterwards
C35_StaleLoginReached ==
    /\ hist.phase = "running" /\ hist.overlap
    /\ ev.kind = "loginSettled" /\ ev.ret = "true"
    /\ session.isAuthenticated /\ lsToken = MockToken

(***************************************************************************)
(* Navigations one at a time: the user navigates, submits the login form,  *)
(* logs out or reloads only while no navigation and no service call is in  *)
(* progress, so nothing else touches the session during a navigation.  The *)
(* router follows redirects and the service's timers fire.                 *)
(***************************************************************************)
Quiet == calls = <<>> /\ nav.phase = "idle"

NavNext ==
    \/ Quiet /\ \E route \in Routes : Navigate(route)
    \/ FollowRedirect
    \/ Quiet /\ \E data \in LoginInputs : SubmitLogin(data)
    \/ \E i \in 1..Len(calls) : SettleLogin(i)
    \/ \E i \in 1..Len(calls) : SettleCheck(i)
    \/ Quiet /\ Logout
    \/ Quiet /\ ConstructStore

NavSpec ==
    /\ InitSession /\ [][NavNext]_vars
    /\ WF_vars(FollowRedirect)
    /\ WF_vars(\E i \in 1..Len(calls) : SettleCheck(i))

\* C36: a navigation to `/` or `/login` during which nothing else touches the
\* session is redirected at most once and ends with a page committed: the
\* guards do not send it back and forth, and the page committed is the one the
\* last guard let through.
C36_NavigationSettles ==
    /\ [](nav.hops <= 1)
    /\ [](ev.loader = "commit" => (nav = NavIdle /\ page = ev.route))
    /\ (nav.phase # "idle") ~> (nav.phase = "idle" /\ page \in Routes)

\* a navigation to /login with a token stored was redirected once and committed `/`
C36_Witness ==
    /\ ev.kind = "checkSettled" /\ ev.loader = "commit" /\ ev.route = "/"
    /\ page = "/" /\ nav = NavIdle /\ authHist = None /\ lsToken = MockToken
    /\ ev.sessionBefore.isAuthenticated

\* a navigation to `/` without a token was redirected once and committed /login
C36_RedirectedReached ==
    /\ ev.kind = "redirect" /\ ev.loader = "commit" /\ ev.route = "/login"
    /\ page = "/login" /\ nav = NavIdle /\ lsToken = None

(***************************************************************************)
(* The task store with the observer of errors: every operation of the      *)
(* store, clearError included, in any overlap.                             *)
(***************************************************************************)
InitError ==
    /\ SessionQuiet /\ RemoteInit /\ LocalQuiet /\ HookQuiet
    /\ ev = REv("init")
    /\ hist = HistIdle("error")

ErrorSpec == InitError /\ [][RemoteNext]_vars

\* a toggle or a delete has just succeeded
MutationSucceeded ==
    ev'.kind \in {"toggleSettled", "deleteSettled"} /\ ev'.ret = "ok"

C37_LoadingShownReached ==
    /\ hist.phase = "running"
    /\ ev.kind = "toggleSettled" /\ ev.ret = "false"
    /\ error # None /\ isLoading
    /\ View.shows = "loading"

\* clearError was called while an error was set and a request was outstanding
C37_ClearedReached ==
    /\ ev.kind = "clearError" /\ error = None /\ hist.phase = "idle"
    /\ Len(reqs) > 0 /\ Len(todos) > 0

====
